---- MODULE Spec2Model ----
(***************************************************************************)
(* Verification model of the multi-objective tour planner: the route type  *)
(* of the MOVNS engine, the Pareto-dominance operations, the MOVNS         *)
(* approximation set, the NSGA-II sorting and replacement steps, the route *)
(* validity checks and the HSO hypervolume calculator.                     *)
(*                                                                         *)
(* Times are minutes, distances metres and costs R$; the doubles of the    *)
(* source are modelled by integers, and every catalog below keeps the      *)
(* quantities the code computes (sums, products, distance/1000*6) whole.   *)
(***************************************************************************)
EXTENDS Integers, Sequences, FiniteSets, TLC

VARIABLES
    catalog,           \* the attraction catalog and transport matrices loaded
    attractions_,      \* MOVNSSolution::attractions_  (sequence of attraction indices)
    transport_modes_,  \* MOVNSSolution::transport_modes_
    time_info_,        \* MOVNSSolution::time_info_
    last_op,           \* the operation that produced the current state
    p_approx_,         \* MOVNS::p_approx_ (sequence of MOVNSSolution values)
    input,             \* arguments handed to a pure operation under test
    output,            \* what that operation returned (or the error it raised)
    exploration_state_,         \* MOVNS::exploration_state_ (index -> state)
    iteration,                  \* MOVNS::run: local counter of iterations
    iterations_no_improvement,  \* MOVNS::run: local counter of stalled iterations
    elapsed,                    \* MOVNS::run: whole seconds since start_time
    pc                          \* MOVNS::run: "start", "loop" or "done"

\* the state of one MOVNS::run besides the approximation set
run_state == <<exploration_state_, iteration, iterations_no_improvement, elapsed, pc>>

vars == <<catalog, attractions_, transport_modes_, time_info_, last_op,
          p_approx_, input, output, run_state>>

----------------------------------------------------------------------------
(* Bounds of the model *)

\* largest max_iterations and max_iterations_no_improvement of a run
MaxIterations == 2

\* largest max_time_seconds of a run, and the last second the clock reaches
MaxSeconds == 1

\* most individuals of a front handed to calculateCrowdingDistances
MaxFront == 3

\* most genes of a chromosome handed to evaluate
MaxGenes == 2

\* individuals of a population handed to evaluatePopulation
MaxEvaluated == 2

\* longest attraction name handed to the transport oracle
MaxNameLen == 3

\* most members the approximation set holds when updateApproximationSet is
\* called on its own
MaxApprox == 3

\* longest route the route operations are allowed to build
MaxRouteLen == 3

\* objective values of the dominance comparisons range over 0..MaxObjective
MaxObjective == 2

\* largest population handed to the sort and to the replacement
MaxPop == 4

\* largest coordinate of a point handed to the hypervolume calculator
MaxCoordinate == 1

\* largest point set handed to the hypervolume calculator
MaxPoints == 2

\* most attractions of the catalog the genetic operators work on
MaxAttractions == 3

\* largest population_size handed to initializePopulation on its own
MaxPopulation == 3

\* most attractions of the catalog of a run of NSGA2Base
MaxRunAttractions == 2

\* largest population_size of a run of NSGA2Base
MaxPopulationSize == 2

\* largest max_generations of a run of NSGA2Base
MaxGenerations == 2

\* most solutions handed to applyEpsilonDominance
MaxSolutions == 3

----------------------------------------------------------------------------
(* Program constants: utils::Config and the day start *)

DAILY_TIME_LIMIT == 840
WALK_TIME_PREFERENCE == 15
COST_CAR_PER_KM == 6
DAY_START == 540
MINUTES_PER_DAY == 1440
\* generateRandomSolution: "always start with at least 2 attractions"
min_attractions == 2
\* 1 / EPSILON of NSGA2::Individual::dominates (EPSILON = 1e-6)
INV_EPSILON == 1000000

WALK == "WALK"
CAR == "CAR"
TransportMode == {WALK, CAR}

----------------------------------------------------------------------------
(* Attraction catalogs and the four origin-destination matrices.           *)
(* Each catalog is one input the program can be started with.              *)

Attr(o, c, v, k, n) ==
    [opening_time_ |-> o, closing_time_ |-> c, visit_time_ |-> v,
     cost_ |-> k, neighborhood_ |-> n]

Catalogs ==
    << \* catalog 1: waits, early closings, long visits, walks over the cap
       [ attractions |-> << Attr(0, 1439, 300, 10, "N1"),
                            Attr(600, 900, 30, 20, "N1"),
                            Attr(480, 620, 120, 0, "N2"),
                            Attr(540, 1320, 500, 5, "N3") >>,
         walk_times |-> << << 0, 10, 20, 15 >>,
                           << 10, 0, 16, 12 >>,
                           << 20, 16, 0, 40 >>,
                           << 15, 12, 40, 0 >> >>,
         car_times |-> << << 0, 5, 8, 6 >>,
                          << 5, 0, 7, 4 >>,
                          << 8, 7, 0, 12 >>,
                          << 6, 4, 12, 0 >> >>,
         car_distances |-> << << 0, 500, 1500, 1000 >>,
                              << 500, 0, 1000, 500 >>,
                              << 1500, 1000, 0, 3000 >>,
                              << 1000, 500, 3000, 0 >> >>,
         walk_distances |-> << << 0, 400, 1200, 900 >>,
                               << 400, 0, 950, 700 >>,
                               << 1200, 950, 0, 2400 >>,
                               << 900, 700, 2400, 0 >> >> ],
       \* catalog 2: short visits and wide opening hours, asymmetric matrices
       [ attractions |-> << Attr(0, 1439, 60, 10, "N1"),
                            Attr(540, 900, 30, 20, "N2"),
                            Attr(500, 1200, 45, 0, "N2"),
                            Attr(700, 1000, 20, 15, "N3") >>,
         walk_times |-> << << 0, 10, 14, 30 >>,
                           << 12, 0, 20, 15 >>,
                           << 16, 18, 0, 9 >>,
                           << 30, 15, 11, 0 >> >>,
         car_times |-> << << 0, 5, 6, 10 >>,
                          << 5, 0, 8, 20 >>,
                          << 7, 8, 0, 4 >>,
                          << 10, 6, 5, 0 >> >>,
         car_distances |-> << << 0, 500, 1000, 2500 >>,
                              << 500, 0, 1500, 1000 >>,
                              << 1000, 1500, 0, 500 >>,
                              << 2500, 1000, 500, 0 >> >>,
         walk_distances |-> << << 0, 450, 800, 1800 >>,
                               << 450, 0, 1200, 900 >>,
                               << 800, 1200, 0, 500 >>,
                               << 1800, 900, 500, 0 >> >> ],
       \* catalog 3: nothing is open at 9:00, so every route has to wait
       [ attractions |-> << Attr(600, 1200, 60, 10, "N1"),
                            Attr(660, 1200, 30, 20, "N1"),
                            Attr(720, 1320, 45, 0, "N2"),
                            Attr(600, 900, 20, 15, "N3") >>,
         walk_times |-> << << 0, 10, 14, 30 >>,
                           << 10, 0, 20, 15 >>,
                           << 14, 20, 0, 9 >>,
                           << 30, 15, 9, 0 >> >>,
         car_times |-> << << 0, 5, 6, 10 >>,
                          << 5, 0, 8, 7 >>,
                          << 6, 8, 0, 4 >>,
                          << 10, 7, 4, 0 >> >>,
         car_distances |-> << << 0, 500, 1000, 2500 >>,
                              << 500, 0, 1500, 1000 >>,
                              << 1000, 1500, 0, 500 >>,
                              << 2500, 1000, 500, 0 >> >>,
         walk_distances |-> << << 0, 450, 800, 1800 >>,
                               << 450, 0, 1200, 900 >>,
                               << 800, 1200, 0, 500 >>,
                               << 1800, 900, 500, 0 >> >> ] >>

AttractionIds == 1..Len(Catalogs[1].attractions)

attraction(a) == catalog.attractions[a]
getOpeningTime(a) == attraction(a).opening_time_
getClosingTime(a) == attraction(a).closing_time_
getVisitTime(a) == attraction(a).visit_time_
getCost(a) == attraction(a).cost_
getNeighborhood(a) == attraction(a).neighborhood_

\* Attraction::isOpenAt
isOpenAt(a, time) ==
    IF time < 0 \/ time >= MINUTES_PER_DAY THEN FALSE
    ELSE IF getOpeningTime(a) = 0 /\ getClosingTime(a) = 1439 THEN TRUE
    ELSE time >= getOpeningTime(a) /\ time <= getClosingTime(a)

----------------------------------------------------------------------------
(* Transport oracle (every name of a catalog is present in the matrices) *)

getTravelTime(from, to, mode) ==
    IF mode = WALK THEN catalog.walk_times[from][to]
    ELSE catalog.car_times[from][to]

getDistance(from, to, mode) ==
    IF mode = WALK THEN catalog.walk_distances[from][to]
    ELSE catalog.car_distances[from][to]

\* mutant of getTravelCost: a walked segment is charged as a car ride
getTravelCost_WalkCharged(from, to, mode) ==
    (getDistance(from, to, CAR) * COST_CAR_PER_KM) \div 1000

getTravelCost(from, to, mode) ==
    IF mode = WALK THEN 0
    ELSE (getDistance(from, to, CAR) * COST_CAR_PER_KM) \div 1000

determinePreferredMode(from, to) ==
    IF getTravelTime(from, to, WALK) <= WALK_TIME_PREFERENCE THEN WALK ELSE CAR

----------------------------------------------------------------------------
(* Sequence helpers standing for std::vector operations *)

Erase(s, i) == [j \in 1..(Len(s) - 1) |-> IF j < i THEN s[j] ELSE s[j + 1]]

InsertAt(s, i, x) ==
    [j \in 1..(Len(s) + 1) |-> IF j < i THEN s[j] ELSE IF j = i THEN x ELSE s[j - 1]]

SetAt(s, i, x) == [s EXCEPT ![i] = x]

Range(s) == {s[i] : i \in 1..Len(s)}

----------------------------------------------------------------------------
(* MOVNSSolution: the time-info recalculation *)

\* mutant of TimeInfoAt: the departure is taken from the clock before the wait
TimeInfoAt_WaitDropped(a, current_time) ==
    LET waits == ~isOpenAt(a, current_time) /\ current_time < getOpeningTime(a)
        arrival == IF waits THEN getOpeningTime(a) ELSE current_time
    IN [arrival_time |-> arrival,
        departure_time |-> current_time + getVisitTime(a),
        wait_time |-> IF waits THEN getOpeningTime(a) - current_time ELSE 0]

\* one stop of recalculateTimeInfo: current_time is the clock on reaching a
TimeInfoAt(a, current_time) ==
    LET waits == ~isOpenAt(a, current_time) /\ current_time < getOpeningTime(a)
        arrival == IF waits THEN getOpeningTime(a) ELSE current_time
    IN [arrival_time |-> arrival,
        departure_time |-> arrival + getVisitTime(a),
        wait_time |-> IF waits THEN getOpeningTime(a) - current_time ELSE 0]

RECURSIVE RecalcLoop(_, _, _, _)
RecalcLoop(attrs, modes, i, acc) ==
    IF i > Len(attrs) THEN acc
    ELSE LET travel_time == getTravelTime(attrs[i - 1], attrs[i], modes[i - 1])
             info == TimeInfoAt(attrs[i], acc[i - 1].departure_time + travel_time)
         IN RecalcLoop(attrs, modes, i + 1, Append(acc, info))

\* MOVNSSolution::recalculateTimeInfo, applied after time_info_.resize(size)
recalculateTimeInfo(attrs, modes) ==
    IF attrs = <<>> THEN <<>>
    ELSE RecalcLoop(attrs, modes, 2, << TimeInfoAt(attrs[1], DAY_START) >>)

----------------------------------------------------------------------------
(* MOVNSSolution: structural operations.  Indices and positions are the    *)
(* 0-based values of the source; sequences here are 1-based.               *)

\* "For long distances, force car use"
ForceCar(mode, from, to) ==
    IF getTravelTime(from, to, WALK) > WALK_TIME_PREFERENCE THEN CAR ELSE mode

\* mode pushed by addAttraction for the segment prev -> a
AddedMode(prev, a, mode) ==
    IF mode = CAR THEN ForceCar(determinePreferredMode(prev, a), prev, a) ELSE mode

\* a MOVNSSolution value: the three data members
MOVNSSolutionOf(attrs, modes, infos) ==
    [attractions_ |-> attrs, transport_modes_ |-> modes, time_info_ |-> infos]

\* the route object the structural operations act on
this == MOVNSSolutionOf(attractions_, transport_modes_, time_info_)

\* MOVNSSolution::addAttraction applied to the solution s
MOVNSSolution_addAttraction(s, a, mode) ==
    IF a \in Range(s.attractions_) THEN s
    ELSE LET modes == IF s.attractions_ # <<>>
                      THEN Append(s.transport_modes_,
                                  AddedMode(s.attractions_[Len(s.attractions_)], a, mode))
                      ELSE s.transport_modes_
             attrs == Append(s.attractions_, a)
         IN MOVNSSolutionOf(attrs, modes, recalculateTimeInfo(attrs, modes))

addAttraction(a, mode) ==
    /\ Len(attractions_) < MaxRouteLen
    /\ LET s == MOVNSSolution_addAttraction(this, a, mode)
       IN /\ attractions_' = s.attractions_
          /\ transport_modes_' = s.transport_modes_
          /\ time_info_' = s.time_info_
    /\ last_op' = [name |-> "addAttraction", done |-> a \notin Range(attractions_)]
    /\ UNCHANGED <<run_state, catalog, p_approx_, input, output>>

\* mutant of RemovedModes: only the removal of the first stop drops a mode
RemovedModes_OnlyFirstDropped(attrs, modes, index) ==
    IF index = 0 /\ attrs # <<>> THEN Erase(modes, 1) ELSE modes

\* transport modes left by removeAttraction(index); attrs is the route after
\* the erase
RemovedModes(attrs, modes, index) ==
    IF index = 0 /\ attrs # <<>> THEN Erase(modes, 1)
    ELSE IF index = Len(attrs) /\ modes # <<>> THEN SubSeq(modes, 1, Len(modes) - 1)
    ELSE IF modes # <<>> /\ index > 0 /\ index <= Len(modes)
    THEN LET newMode == determinePreferredMode(
                            attrs[index],
                            IF index < Len(attrs) THEN attrs[index + 1] ELSE attrs[index])
             erased == Erase(modes, index)
         IN IF index <= Len(erased) THEN SetAt(erased, index, newMode) ELSE erased
    ELSE modes

\* MOVNSSolution::removeAttraction applied to the solution s
MOVNSSolution_removeAttraction(s, index) ==
    IF index >= Len(s.attractions_) THEN s
    ELSE LET attrs == Erase(s.attractions_, index + 1)
             modes == RemovedModes(attrs, s.transport_modes_, index)
         IN MOVNSSolutionOf(attrs, modes, recalculateTimeInfo(attrs, modes))

removeAttraction(index) ==
    /\ LET s == MOVNSSolution_removeAttraction(this, index)
       IN /\ attractions_' = s.attractions_
          /\ transport_modes_' = s.transport_modes_
          /\ time_info_' = s.time_info_
    /\ last_op' = [name |-> "removeAttraction", done |-> index < Len(attractions_)]
    /\ UNCHANGED <<run_state, catalog, p_approx_, input, output>>

\* segment indices (0-based) whose mode swapAttractions re-derives
affected_indices(index1, index2, nmodes) ==
    (IF index1 > 0 THEN {index1 - 1} ELSE {})
    \cup (IF index1 < nmodes THEN {index1} ELSE {})
    \cup (IF index2 > 0 /\ index2 - 1 # index1 /\ index2 - 1 # index1 - 1
          THEN {index2 - 1} ELSE {})
    \cup (IF index2 < nmodes /\ index2 # index1 /\ index2 # index1 + 1
          THEN {index2} ELSE {})

SwappedModes(attrs, modes, index1, index2) ==
    [i \in 1..Len(modes) |->
        IF (i - 1) \in affected_indices(index1, index2, Len(modes))
        THEN determinePreferredMode(attrs[i], attrs[i + 1])
        ELSE modes[i]]

\* MOVNSSolution::swapAttractions applied to the solution s
MOVNSSolution_swapAttractions(s, index1, index2) ==
    IF index1 >= Len(s.attractions_) \/ index2 >= Len(s.attractions_) THEN s
    ELSE LET attrs == [s.attractions_ EXCEPT ![index1 + 1] = s.attractions_[index2 + 1],
                                             ![index2 + 1] = s.attractions_[index1 + 1]]
             modes == SwappedModes(attrs, s.transport_modes_, index1, index2)
         IN MOVNSSolutionOf(attrs, modes, recalculateTimeInfo(attrs, modes))

swapAttractions(index1, index2) ==
    /\ LET s == MOVNSSolution_swapAttractions(this, index1, index2)
       IN /\ attractions_' = s.attractions_
          /\ transport_modes_' = s.transport_modes_
          /\ time_info_' = s.time_info_
    /\ last_op' = [name |-> "swapAttractions",
                   done |-> index1 < Len(attractions_) /\ index2 < Len(attractions_)]
    /\ UNCHANGED <<run_state, catalog, p_approx_, input, output>>

\* transport modes left by insertAttraction; attrs is the route after the
\* insertion of a at position
InsertedModes(attrs, modes, a, position) ==
    IF Len(attrs) <= 1 THEN modes
    ELSE IF position = 0
    THEN InsertAt(modes, 1,
                  ForceCar(determinePreferredMode(a, attrs[2]), a, attrs[2]))
    ELSE IF position = Len(attrs) - 1
    THEN Append(modes,
                ForceCar(determinePreferredMode(attrs[position], a), attrs[position], a))
    ELSE LET beforeMode == ForceCar(determinePreferredMode(attrs[position], a),
                                    attrs[position], a)
             afterMode == ForceCar(determinePreferredMode(a, attrs[position + 2]),
                                   a, attrs[position + 2])
             updated == IF position - 1 < Len(modes)
                        THEN SetAt(modes, position, beforeMode) ELSE modes
         IN InsertAt(updated, position + 1, afterMode)

\* MOVNSSolution::insertAttraction applied to the solution s (the mode
\* argument is ignored by the code)
MOVNSSolution_insertAttraction(s, a, position) ==
    IF position > Len(s.attractions_) \/ a \in Range(s.attractions_) THEN s
    ELSE LET attrs == InsertAt(s.attractions_, position + 1, a)
             modes == InsertedModes(attrs, s.transport_modes_, a, position)
         IN MOVNSSolutionOf(attrs, modes, recalculateTimeInfo(attrs, modes))

insertAttraction(a, position) ==
    /\ Len(attractions_) < MaxRouteLen
    /\ LET s == MOVNSSolution_insertAttraction(this, a, position)
       IN /\ attractions_' = s.attractions_
          /\ transport_modes_' = s.transport_modes_
          /\ time_info_' = s.time_info_
    /\ last_op' = [name |-> "insertAttraction",
                   done |-> position <= Len(attractions_) /\ a \notin Range(attractions_)]
    /\ UNCHANGED <<run_state, catalog, p_approx_, input, output>>

InitRoute ==
    /\ catalog \in Range(Catalogs)
    /\ attractions_ = <<>>
    /\ transport_modes_ = <<>>
    /\ time_info_ = <<>>
    /\ last_op = [name |-> "MOVNSSolution", done |-> TRUE]
    /\ p_approx_ = <<>>
    /\ input = <<>>
    /\ output = <<>>
    /\ exploration_state_ = <<>>
    /\ iteration = 0
    /\ iterations_no_improvement = 0
    /\ elapsed = 0
    /\ pc = "start"

NextRoute ==
    \/ \E a \in AttractionIds, mode \in TransportMode : addAttraction(a, mode)
    \/ \E index \in 0..MaxRouteLen : removeAttraction(index)
    \/ \E index1 \in 0..MaxRouteLen, index2 \in 0..MaxRouteLen :
           swapAttractions(index1, index2)
    \/ \E a \in AttractionIds, position \in 0..MaxRouteLen :
           insertAttraction(a, position)

SpecRoute == InitRoute /\ [][NextRoute]_vars

\* the same operations when every addAttraction leaves the mode out (the
\* default argument is CAR)
NextRouteDefaulted ==
    \/ \E a \in AttractionIds : addAttraction(a, CAR)
    \/ \E index \in 0..MaxRouteLen : removeAttraction(index)
    \/ \E index1 \in 0..MaxRouteLen, index2 \in 0..MaxRouteLen :
           swapAttractions(index1, index2)
    \/ \E a \in AttractionIds, position \in 0..MaxRouteLen :
           insertAttraction(a, position)

SpecRouteDefaulted == InitRoute /\ [][NextRouteDefaulted]_vars

----------------------------------------------------------------------------
(* MOVNSSolution: objectives, validity, dominance, equality *)

Max(x, y) == IF x >= y THEN x ELSE y
Min(x, y) == IF x <= y THEN x ELSE y
Abs(x) == IF x >= 0 THEN x ELSE -x

\* f[1] + ... + f[n]
RECURSIVE SumTo(_, _)
SumTo(f, n) == IF n = 0 THEN 0 ELSE f[n] + SumTo(f, n - 1)

\* number of rounds of "for (i = 0; i < attractions_.size() - 1 &&
\* i < transport_modes_.size(); ++i)"; size() - 1 wraps for the empty route
SegmentCount(s) ==
    IF s.attractions_ = <<>> THEN Len(s.transport_modes_)
    ELSE Min(Len(s.attractions_) - 1, Len(s.transport_modes_))

MOVNSSolution_getTotalCost(s) ==
    SumTo([i \in 1..Len(s.attractions_) |-> Max(0, getCost(s.attractions_[i]))],
          Len(s.attractions_))
    + SumTo([i \in 1..SegmentCount(s) |->
                Max(0, getTravelCost(s.attractions_[i], s.attractions_[i + 1],
                                     s.transport_modes_[i]))],
            SegmentCount(s))

MOVNSSolution_getTotalTime(s) ==
    IF s.attractions_ = <<>> THEN 0
    ELSE SumTo([i \in 1..Len(s.attractions_) |->
                   getVisitTime(s.attractions_[i])
                   + (IF i <= Len(s.time_info_) THEN s.time_info_[i].wait_time ELSE 0)],
               Len(s.attractions_))
         + SumTo([i \in 1..SegmentCount(s) |->
                     getTravelTime(s.attractions_[i], s.attractions_[i + 1],
                                   s.transport_modes_[i])],
                 SegmentCount(s))

getNumAttractions(s) == Len(s.attractions_)

getNumNeighborhoods(s) ==
    Cardinality({getNeighborhood(s.attractions_[i]) : i \in 1..Len(s.attractions_)})

\* DAILY_TIME_LIMIT * (1.0 + TOLERANCE), TOLERANCE being 0.1
max_time == (DAILY_TIME_LIMIT * 11) \div 10

\* total_time + time_penalty, in units of 1/max_time minute so that the
\* quotient violation / max_time stays whole
PenalizedTime(total_time) ==
    IF total_time > max_time
    THEN total_time * max_time
         + (total_time - max_time) * (max_time + (total_time - max_time))
    ELSE total_time * max_time

\* MOVNSSolution::getObjectives (second axis scaled by max_time)
MOVNSSolution_getObjectives(s) ==
    << Max(0, MOVNSSolution_getTotalCost(s)),
       PenalizedTime(MOVNSSolution_getTotalTime(s)),
       -getNumAttractions(s),
       -getNumNeighborhoods(s) >>

respectsTimeLimit(s) == MOVNSSolution_getTotalTime(s) <= DAILY_TIME_LIMIT

respectsWalkingLimit(s) ==
    \A i \in 1..SegmentCount(s) :
        s.transport_modes_[i] = WALK =>
            getTravelTime(s.attractions_[i], s.attractions_[i + 1], WALK)
                <= WALK_TIME_PREFERENCE

MOVNSSolution_checkTimeConstraints(s) ==
    \A i \in 1..Len(s.attractions_) :
        i <= Len(s.time_info_) =>
            /\ isOpenAt(s.attractions_[i], s.time_info_[i].arrival_time)
            /\ isOpenAt(s.attractions_[i], s.time_info_[i].departure_time)
            /\ Abs(s.time_info_[i].departure_time - s.time_info_[i].arrival_time
                   - s.time_info_[i].wait_time - getVisitTime(s.attractions_[i])) <= 1

HasDuplicate(seq) == \E i, j \in 1..Len(seq) : i < j /\ seq[i] = seq[j]

MOVNSSolution_isValid(s) ==
    /\ s.attractions_ # <<>>
    /\ ~HasDuplicate(s.attractions_)
    /\ MOVNSSolution_checkTimeConstraints(s)
    /\ respectsWalkingLimit(s)
    /\ respectsTimeLimit(s)

\* mutant of DominatesLoop: the strictly-better flag is not required
DominatesLoop_NoStrict(self_obj, other_obj, i, at_least_one_better) ==
    \A k \in i..Len(self_obj) : self_obj[k] <= other_obj[k]

\* the comparison loop of MOVNSSolution::dominates and of
\* NSGA2Base::Individual::dominates, from index i on; both vectors hold an
\* entry at every index the loop reads
RECURSIVE DominatesLoop(_, _, _, _)
DominatesLoop(self_obj, other_obj, i, at_least_one_better) ==
    IF i > Len(self_obj) THEN at_least_one_better
    ELSE IF self_obj[i] > other_obj[i] THEN FALSE
    ELSE DominatesLoop(self_obj, other_obj, i + 1,
                       at_least_one_better \/ self_obj[i] < other_obj[i])

MOVNSSolution_dominates(s, other) ==
    DominatesLoop(MOVNSSolution_getObjectives(s), MOVNSSolution_getObjectives(other),
                  1, FALSE)

\* MOVNSSolution::operator==
MOVNSSolution_equals(s, other) ==
    /\ Len(s.attractions_) = Len(other.attractions_)
    /\ \A i \in 1..Len(s.attractions_) : s.attractions_[i] = other.attractions_[i]
    /\ \A i \in 1..Min(Len(s.transport_modes_), Len(other.transport_modes_)) :
           s.transport_modes_[i] = other.transport_modes_[i]

----------------------------------------------------------------------------
(* movns::Utils::generateRandomSolution.  indices is the shuffled order of  *)
(* the catalog and num_attractions the drawn target length.                 *)

EmptySolution == MOVNSSolutionOf(<<>>, <<>>, <<>>)

\* one round of the construction loops: the first stop takes the default
\* mode argument, a later one the preferred mode with the long-walk override
SeedAdd(s, a) ==
    IF s.attractions_ = <<>> THEN MOVNSSolution_addAttraction(s, a, CAR)
    ELSE LET prev == s.attractions_[Len(s.attractions_)]
         IN MOVNSSolution_addAttraction(
                s, a, ForceCar(determinePreferredMode(prev, a), prev, a))

\* inner loop of the first phase; i is the 1-based position of the next stop
RECURSIVE AttemptBuild(_, _, _, _)
AttemptBuild(indices, attempt_size, i, s) ==
    IF i > attempt_size THEN s
    ELSE LET t == SeedAdd(s, indices[i])
         IN IF ~MOVNSSolution_isValid(t) THEN t
            ELSE AttemptBuild(indices, attempt_size, i + 1, t)

Accepted(s) == MOVNSSolution_isValid(s) /\ getNumAttractions(s) >= min_attractions

\* first phase: attempt sizes num_attractions down to min_attractions
RECURSIVE FirstPhase(_, _)
FirstPhase(indices, attempt_size) ==
    IF attempt_size < min_attractions THEN EmptySolution
    ELSE LET s == AttemptBuild(indices, attempt_size, 1, EmptySolution)
         IN IF Accepted(s) THEN s ELSE FirstPhase(indices, attempt_size - 1)

\* second phase: grow one stop at a time, keeping a stop only if still valid
RECURSIVE Incremental(_, _, _, _)
Incremental(indices, num_attractions, i, s) ==
    IF i > Len(indices) \/ getNumAttractions(s) >= num_attractions THEN s
    ELSE LET temp_solution == SeedAdd(s, indices[i])
         IN Incremental(indices, num_attractions, i + 1,
                        IF MOVNSSolution_isValid(temp_solution) THEN temp_solution ELSE s)

pair_solution(first, second) ==
    MOVNSSolution_addAttraction(
        MOVNSSolution_addAttraction(EmptySolution, first, CAR), second, CAR)

ValidPairs ==
    {p \in AttractionIds \X AttractionIds :
        p[1] # p[2] /\ MOVNSSolution_isValid(pair_solution(p[1], p[2]))}

\* the pair the nested loops of the third phase reach first
FirstValidPair ==
    CHOOSE p \in ValidPairs :
        \A q \in ValidPairs : p[1] < q[1] \/ (p[1] = q[1] /\ p[2] <= q[2])

fallback == MOVNSSolution_addAttraction(EmptySolution, 1, CAR)

generateRandomSolution(indices, num_attractions) ==
    LET first == FirstPhase(indices, num_attractions)
        second == Incremental(indices, num_attractions, 2,
                              MOVNSSolution_addAttraction(EmptySolution, indices[1], CAR))
    IN IF Accepted(first) THEN first
       ELSE IF Accepted(second) THEN second
       ELSE IF ValidPairs # {} THEN pair_solution(FirstValidPair[1], FirstValidPair[2])
       ELSE fallback

\* every outcome of std::shuffle on the index vector
Shuffles ==
    {p \in [AttractionIds -> AttractionIds] : \A i, j \in AttractionIds : i # j => p[i] # p[j]}

----------------------------------------------------------------------------
(* MOVNS: the approximation set during one run() *)

\* mutant of UpdateScan: the members the new solution dominates are not
\* collected, so none is erased
UpdateScan_NoneCollected(set, solution, i, dominated_indices) ==
    [is_dominated |-> \E k \in i..Len(set) : MOVNSSolution_dominates(set[k], solution),
     dominated_indices |-> {}]

\* the scan of updateApproximationSet over the existing members, from i on
RECURSIVE UpdateScan(_, _, _, _)
UpdateScan(set, solution, i, dominated_indices) ==
    IF i > Len(set)
    THEN [is_dominated |-> FALSE, dominated_indices |-> dominated_indices]
    ELSE IF MOVNSSolution_dominates(set[i], solution)
    THEN [is_dominated |-> TRUE, dominated_indices |-> dominated_indices]
    ELSE UpdateScan(set, solution, i + 1,
                    IF MOVNSSolution_dominates(solution, set[i])
                    THEN dominated_indices \cup {i} ELSE dominated_indices)

\* erase of the members at the positions idxs
RECURSIVE EraseAll(_, _, _)
EraseAll(set, idxs, i) ==
    IF i > Len(set) THEN <<>>
    ELSE (IF i \in idxs THEN <<>> ELSE <<set[i]>>) \o EraseAll(set, idxs, i + 1)

\* the approximation set MOVNS::updateApproximationSet leaves
UpdatedSet(set, solution) ==
    LET scan == UpdateScan(set, solution, 1, {})
    IN IF ~MOVNSSolution_isValid(solution) \/ scan.is_dominated THEN set
       ELSE Append(EraseAll(set, scan.dominated_indices, 1), solution)

\* mutant of UpdateModified: the validity test is skipped
UpdateModified_ValiditySkipped(set, solution) ==
    ~UpdateScan(set, solution, 1, {}).is_dominated

\* the value MOVNS::updateApproximationSet returns
UpdateModified(set, solution) ==
    /\ MOVNSSolution_isValid(solution)
    /\ ~UpdateScan(set, solution, 1, {}).is_dominated

\* a candidate handed to updateApproximationSet: a solution rebuilt stop by
\* stop with addAttraction, as the neighborhood operators build theirs
RECURSIVE Rebuild(_, _, _, _)
Rebuild(attrs, modes, i, s) ==
    IF i > Len(attrs) THEN s
    ELSE Rebuild(attrs, modes, i + 1,
                 MOVNSSolution_addAttraction(s, attrs[i],
                                             IF i = 1 THEN CAR ELSE modes[i - 1]))

----------------------------------------------------------------------------
(* The six neighborhoods.  generateRandomNeighbor draws from the random    *)
(* generator; each operator here is the set of solutions a call can        *)
(* return.  Indices are the 0-based values of the source.                  *)

\* names of the neighborhoods of NeighborhoodFactory::createAllNeighborhoods
NeighborhoodNames ==
    {"TransportModeChange", "LocationReallocation", "LocationExchange",
     "SubsequenceInversion", "LocationReplacement", "AttractionRemoval"}

\* Utils::isViableTransportMode
isViableTransportMode(from, to, mode) ==
    mode = CAR \/ getTravelTime(from, to, WALK) <= WALK_TIME_PREFERENCE

\* a new solution filled by addAttraction with the mode left out
RebuiltDefault(new_sequence) ==
    Rebuild(new_sequence, [i \in 1..(Len(new_sequence) - 1) |-> CAR], 1, EmptySolution)

\* mutant of ValidOrOriginal: the new solution is returned unchecked
ValidOrOriginal_Unchecked(new_solution, solution) == new_solution

\* "if (new_solution.isValid()) return new_solution; return solution;"
ValidOrOriginal(new_solution, solution) ==
    IF MOVNSSolution_isValid(new_solution) THEN new_solution ELSE solution

\* TransportModeChangeNeighborhood once arc_idx is drawn
TransportModeChangeAt(solution, arc_idx) ==
    LET attractions == solution.attractions_
        modes == solution.transport_modes_
        current_mode == modes[arc_idx + 1]
        new_mode == IF current_mode = CAR THEN WALK ELSE CAR
    IN IF new_mode = WALK
          /\ ~isViableTransportMode(attractions[arc_idx + 1], attractions[arc_idx + 2],
                                    new_mode)
       THEN solution
       ELSE ValidOrOriginal(
                Rebuild(attractions, [modes EXCEPT ![arc_idx + 1] = new_mode], 1,
                        EmptySolution),
                solution)

TransportModeChange(solution) ==
    IF getNumAttractions(solution) < 2 THEN {solution}
    ELSE {TransportModeChangeAt(solution, arc_idx) :
              arc_idx \in 0..(Len(solution.transport_modes_) - 1)}

\* the new_sequence of LocationReallocationNeighborhood from index i on
RECURSIVE ReallocatedSequence(_, _, _, _)
ReallocatedSequence(attractions, src_idx, dest_idx, i) ==
    LET size == Len(attractions)
        pushed == IF i # src_idx
                  THEN (IF i = dest_idx THEN <<attractions[src_idx + 1]>> ELSE <<>>)
                       \o <<attractions[i + 1]>>
                  ELSE IF dest_idx > src_idx
                  THEN <<attractions[(IF i + 1 > size - 1 THEN 0 ELSE i + 1) + 1]>>
                  ELSE <<>>
    IN IF i >= size THEN <<>>
       ELSE pushed \o ReallocatedSequence(attractions, src_idx, dest_idx, i + 1)

LocationReallocation(solution) ==
    LET size == getNumAttractions(solution)
    IN IF size < 2 THEN {solution}
       ELSE {ValidOrOriginal(
                 RebuiltDefault(ReallocatedSequence(solution.attractions_, src_idx,
                                                    dest_idx, 0)),
                 solution) :
                 <<src_idx, dest_idx>> \in
                     {q \in (0..(size - 1)) \X (0..(size - 1)) : q[1] # q[2]}}

\* LocationReplacementNeighborhood
LocationReplacement(solution) ==
    LET attractions == solution.attractions_
        size == Len(attractions)
        available_attractions == AttractionIds \ Range(attractions)
        \* one attraction: up to three different available attractions are tried
        forced(a) == RebuiltDefault(Append(attractions, a))
        forced_fails ==
            Cardinality({a \in available_attractions : ~MOVNSSolution_isValid(forced(a))})
                >= Min(3, Cardinality(available_attractions))
        \* addition of the drawn attraction a: at the end, else at the first
        \* position whose insertion is valid, else nothing is returned here
        appended(a) == MOVNSSolution_addAttraction(solution, a, CAR)
        inserted(a, pos) == MOVNSSolution_insertAttraction(solution, a, pos)
        positions(a) == {pos \in 0..size : MOVNSSolution_isValid(inserted(a, pos))}
        addition(a) ==
            IF MOVNSSolution_isValid(appended(a)) THEN {appended(a)}
            ELSE IF positions(a) # {}
            THEN {inserted(a, CHOOSE pos \in positions(a) :
                                  \A other \in positions(a) : pos <= other)}
            ELSE {}
        try_addition ==
            IF available_attractions = {} THEN {solution}
            ELSE UNION {addition(a) : a \in available_attractions}
        addition_fails == \E a \in available_attractions : addition(a) = {}
        \* replacement of the attraction at idx by the drawn attraction a
        replaced(idx, a) ==
            ValidOrOriginal(RebuiltDefault([attractions EXCEPT ![idx + 1] = a]), solution)
        replacement ==
            IF size < 2 \/ available_attractions = {} THEN {solution}
            ELSE {replaced(idx, a) : idx \in 0..(size - 1), a \in available_attractions}
        \* addition is tried with probability 0.7 (size < 10), else replacement
        general == (IF size < 10 THEN try_addition ELSE {}) \cup replacement
    IN IF size = 1
       THEN IF available_attractions = {} THEN {solution}
            ELSE {forced(a) : a \in {b \in available_attractions :
                                         MOVNSSolution_isValid(forced(b))}}
                 \cup (IF forced_fails THEN general ELSE {})
       ELSE general

\* LocationExchangeNeighborhood; ten equal draws of idx2 return the original
LocationExchange(solution) ==
    LET size == getNumAttractions(solution)
    IN IF size < 2 THEN {solution}
       ELSE IF size = 2 THEN LocationReplacement(solution)
       ELSE {solution}
            \cup {ValidOrOriginal(MOVNSSolution_swapAttractions(solution, idx1, idx2),
                                  solution) :
                      <<idx1, idx2>> \in
                          {q \in (0..(size - 1)) \X (0..(size - 1)) : q[1] # q[2]}}

\* the new_sequence of SubsequenceInversionNeighborhood
InvertedSequence(attractions, start_idx, end_idx) ==
    [i \in 1..Len(attractions) |->
        IF i - 1 >= start_idx /\ i - 1 <= end_idx
        THEN attractions[(start_idx + end_idx - (i - 1)) + 1]
        ELSE attractions[i]]

SubsequenceInversion(solution) ==
    LET size == getNumAttractions(solution)
    IN IF size = 2 THEN LocationReplacement(solution)
       ELSE IF size < 3 THEN {solution}
       ELSE {ValidOrOriginal(
                 RebuiltDefault(InvertedSequence(solution.attractions_, start_idx,
                                                 end_idx)),
                 solution) :
                 <<start_idx, end_idx>> \in
                     {q \in (0..(size - 3)) \X (1..(size - 1)) : q[2] >= q[1] + 1}}

\* AttractionRemovalNeighborhood
AttractionRemoval(solution) ==
    LET size == getNumAttractions(solution)
    IN IF size = 1 THEN LocationReplacement(solution)
       ELSE IF size <= 1 THEN {solution}
       ELSE {ValidOrOriginal(MOVNSSolution_removeAttraction(solution, idx), solution) :
                 idx \in (IF size > 2 THEN 1 ELSE 0)..(size - 1)}

\* Neighborhood::generateRandomNeighbor of the neighborhood called name
generateRandomNeighbor(name, solution) ==
    CASE name = "TransportModeChange" -> TransportModeChange(solution)
      [] name = "LocationReallocation" -> LocationReallocation(solution)
      [] name = "LocationExchange" -> LocationExchange(solution)
      [] name = "SubsequenceInversion" -> SubsequenceInversion(solution)
      [] name = "LocationReplacement" -> LocationReplacement(solution)
      [] name = "AttractionRemoval" -> AttractionRemoval(solution)

\* TransportModeChangeNeighborhood on the valid solution held, arc_idx drawn
call_TransportModeChange(arc_idx) ==
    /\ MOVNSSolution_isValid(this)
    /\ getNumAttractions(this) >= 2
    /\ arc_idx < Len(transport_modes_)
    /\ LET neighbor == TransportModeChangeAt(this, arc_idx)
       IN /\ attractions_' = neighbor.attractions_
          /\ transport_modes_' = neighbor.transport_modes_
          /\ time_info_' = neighbor.time_info_
          /\ output' = [op |-> "TransportModeChange", x |-> this, arc_idx |-> arc_idx,
                        neighbor |-> neighbor]
    /\ last_op' = [name |-> "TransportModeChange", done |-> TRUE]
    /\ UNCHANGED <<run_state, catalog, p_approx_, input>>

\* any neighborhood on the valid solution held
call_generateRandomNeighbor(name) ==
    /\ MOVNSSolution_isValid(this)
    /\ \E neighbor \in generateRandomNeighbor(name, this) :
          /\ attractions_' = neighbor.attractions_
          /\ transport_modes_' = neighbor.transport_modes_
          /\ time_info_' = neighbor.time_info_
          /\ output' = [op |-> name, x |-> this, arc_idx |-> 0, neighbor |-> neighbor]
    /\ last_op' = [name |-> name, done |-> TRUE]
    /\ UNCHANGED <<run_state, catalog, p_approx_, input>>

\* Utils::generateRandomSolution fills the solution the neighborhoods start from
call_generateRandomSolution ==
    /\ attractions_ = <<>>
    /\ \E indices \in Shuffles,
          num_attractions \in min_attractions..Min(8, Len(catalog.attractions)) :
          LET solution == generateRandomSolution(indices, num_attractions)
          IN /\ attractions_' = solution.attractions_
             /\ transport_modes_' = solution.transport_modes_
             /\ time_info_' = solution.time_info_
    /\ last_op' = [name |-> "generateRandomSolution", done |-> TRUE]
    /\ UNCHANGED <<run_state, catalog, p_approx_, input, output>>

InitNeighborhood ==
    /\ catalog \in Range(Catalogs)
    /\ attractions_ = <<>>
    /\ transport_modes_ = <<>>
    /\ time_info_ = <<>>
    /\ last_op = [name |-> "MOVNSSolution", done |-> TRUE]
    /\ p_approx_ = <<>>
    /\ input = <<>>
    /\ output = <<>>
    /\ exploration_state_ = <<>>
    /\ iteration = 0
    /\ iterations_no_improvement = 0
    /\ elapsed = 0
    /\ pc = "start"

NextNeighborhood ==
    \/ call_generateRandomSolution
    \/ \E arc_idx \in 0..(Cardinality(AttractionIds) - 2) : call_TransportModeChange(arc_idx)
    \/ \E name \in NeighborhoodNames \ {"TransportModeChange"} :
           call_generateRandomNeighbor(name)

SpecNeighborhood == InitNeighborhood /\ [][NextNeighborhood]_vars

\* position of the first member equal to x (std::find), 0 if none
FindFirst(set, x) ==
    IF \E i \in 1..Len(set) : MOVNSSolution_equals(set[i], x)
    THEN CHOOSE i \in 1..Len(set) :
             /\ MOVNSSolution_equals(set[i], x)
             /\ \A j \in 1..(i - 1) : ~MOVNSSolution_equals(set[j], x)
    ELSE 0

----------------------------------------------------------------------------
(* MOVNS: the exploration-state map.  Its keys are the 0-based indices of  *)
(* the source; a map is a function from the set of its keys.               *)

\* a default-constructed SolutionExplorationState
SolutionExplorationState == [explored_neighborhoods |-> {}, fully_explored |-> FALSE]

\* map[key] = value
MapPut(map, key, value) ==
    [k \in (DOMAIN map) \cup {key} |-> IF k = key THEN value ELSE map[k]]

\* map.erase(keys)
MapErase(map, keys) == [k \in (DOMAIN map) \ keys |-> map[k]]

\* MOVNS::isFullyExplored: the value returned and the map it leaves
isFullyExplored(set, map, solution) ==
    LET pos == FindFirst(set, solution)
        index == pos - 1
    IN IF pos = 0 THEN [result |-> FALSE, map |-> map]
       ELSE IF index \notin DOMAIN map
       THEN [result |-> FALSE, map |-> MapPut(map, index, SolutionExplorationState)]
       ELSE [result |-> map[index].fully_explored
                        \/ Cardinality(map[index].explored_neighborhoods)
                               >= Cardinality(NeighborhoodNames),
             map |-> map]

\* the candidate loop of selectSolutionForExploration from position i on
RECURSIVE CandidateLoop(_, _, _, _)
CandidateLoop(set, map, i, candidate_indices) ==
    IF i > Len(set) THEN [candidate_indices |-> candidate_indices, map |-> map]
    ELSE IF (i - 1) \notin DOMAIN map
    THEN CandidateLoop(set, map, i + 1, candidate_indices \cup {i})
    ELSE LET r == isFullyExplored(set, map, set[i])
         IN CandidateLoop(set, r.map, i + 1,
                          IF r.result THEN candidate_indices
                          ELSE candidate_indices \cup {i})

\* MOVNS::selectSolutionForExploration on a non-empty set: every position
\* the random draw can return, with the map the call leaves
selectSolutionForExploration(set, map) ==
    LET scan == CandidateLoop(set, map, 1, {})
    IN IF scan.candidate_indices = {}
       THEN {[position |-> i, map |-> <<>>] : i \in 1..Len(set)}
       ELSE {[position |-> i, map |-> scan.map] : i \in scan.candidate_indices}

\* MOVNS::markNeighborhoodAsExplored: the map it leaves
markNeighborhoodAsExplored(set, map, solution, name) ==
    LET pos == FindFirst(set, solution)
        index == pos - 1
        old == IF index \in DOMAIN map THEN map[index] ELSE SolutionExplorationState
        explored == old.explored_neighborhoods \cup {name}
    IN IF pos = 0 THEN map
       ELSE MapPut(map, index,
                   [explored_neighborhoods |-> explored,
                    fully_explored |-> old.fully_explored
                                       \/ Cardinality(explored)
                                              >= Cardinality(NeighborhoodNames)])

\* mutant of UpdatedMap: the keys of the surviving entries are not shifted
UpdatedMap_KeysKept(set, map, solution) ==
    LET dominated_indices == {i - 1 : i \in UpdateScan(set, solution, 1, {}).dominated_indices}
        new_solution_idx == Len(UpdatedSet(set, solution)) - 1
    IN IF ~UpdateModified(set, solution) THEN map
       ELSE MapPut(MapErase(map, dominated_indices), new_solution_idx,
                   SolutionExplorationState)

\* the map MOVNS::updateApproximationSet leaves
UpdatedMap(set, map, solution) ==
    LET dominated_indices == {i - 1 : i \in UpdateScan(set, solution, 1, {}).dominated_indices}
        kept == (DOMAIN map) \ dominated_indices
        new_idx(key) == key - Cardinality({r \in dominated_indices : r < key})
        updated_map == [k \in {new_idx(key) : key \in kept} |->
                           map[CHOOSE key \in kept : new_idx(key) = k]]
        new_solution_idx == Len(UpdatedSet(set, solution)) - 1
    IN IF ~UpdateModified(set, solution) THEN map
       ELSE MapPut(updated_map, new_solution_idx, SolutionExplorationState)

\* the loop of run() that asks whether every member is fully explored
RECURSIVE ExploredLoop(_, _, _)
ExploredLoop(set, map, i) ==
    IF i > Len(set) THEN [all_explored |-> TRUE, map |-> map]
    ELSE LET r == isFullyExplored(set, map, set[i])
         IN IF r.result THEN ExploredLoop(set, r.map, i + 1)
            ELSE [all_explored |-> FALSE, map |-> r.map]

\* the map at the end of an iteration of run()
ResetIfAllExplored(set, map) ==
    LET r == ExploredLoop(set, map, 1)
    IN IF r.all_explored THEN <<>> ELSE r.map

----------------------------------------------------------------------------
(* MOVNS::run.  Each action is one pass of the main loop, from the loop    *)
(* condition to the continue, break or end of the body that closes it.     *)
(* input holds params_; the clock is read through elapsed.                 *)

\* mutant of TimeLimitReached: the break is taken whatever the clock says
TimeLimitReached_Always(seconds, max_time_seconds) == TRUE

\* "if (elapsed >= params_.max_time_seconds) break;"
TimeLimitReached(seconds, max_time_seconds) == seconds >= max_time_seconds

\* the condition of the while loop
LoopCondition ==
    /\ iteration < input.max_iterations
    /\ iterations_no_improvement < input.max_iterations_no_improvement

\* a pass that goes beyond the time check at the top of the body
InBody ==
    /\ pc = "loop"
    /\ LoopCondition
    /\ ~TimeLimitReached(elapsed, input.max_time_seconds)

\* the test of localSearch that replaces solution by neighbor
Accepts(solution, neighbor) ==
    LET sol_obj == MOVNSSolution_getObjectives(solution)
        neigh_obj == MOVNSSolution_getObjectives(neighbor)
    IN IF ~MOVNSSolution_dominates(solution, neighbor)
          /\ ~MOVNSSolution_dominates(neighbor, solution)
       THEN neigh_obj[1] < sol_obj[1] \/ neigh_obj[2] < sol_obj[2]
       ELSE MOVNSSolution_dominates(neighbor, solution)

\* MOVNS::initializeApproximationSet: called once before the loop and by a
\* pass that finds the set empty
initializeApproximationSet ==
    /\ pc = "start" \/ InBody
    /\ p_approx_ = <<>>
    /\ \E indices \in Shuffles,
          num_attractions \in min_attractions..Min(8, Len(catalog.attractions)) :
           p_approx_' = Append(p_approx_, generateRandomSolution(indices, num_attractions))
    /\ pc' = "loop"
    /\ last_op' = [name |-> "initializeApproximationSet", done |-> TRUE]
    /\ UNCHANGED <<catalog, attractions_, transport_modes_, time_info_, input, output,
                   exploration_state_, iteration, iterations_no_improvement, elapsed>>

\* a pass whose selected solution is invalid: it is erased, no counter moves
removeInvalidSelected ==
    /\ InBody
    /\ p_approx_ # <<>>
    /\ \E sel \in selectSolutionForExploration(p_approx_, exploration_state_) :
           LET x == p_approx_[sel.position]
               pos == FindFirst(p_approx_, x)
           IN /\ ~MOVNSSolution_isValid(x)
              /\ exploration_state_' = MapErase(sel.map, {pos - 1})
              /\ p_approx_' = Erase(p_approx_, pos)
    /\ last_op' = [name |-> "removeInvalidSelected", done |-> TRUE]
    /\ UNCHANGED <<catalog, attractions_, transport_modes_, time_info_, input, output,
                   iteration, iterations_no_improvement, elapsed, pc>>

\* a pass cut short by the five-second limit of one iteration, before the
\* neighbor is drawn or around the local search
iterationTimeout ==
    /\ \/ /\ InBody
          /\ p_approx_ # <<>>
          /\ \E sel \in selectSolutionForExploration(p_approx_, exploration_state_) :
                 /\ MOVNSSolution_isValid(p_approx_[sel.position])
                 /\ exploration_state_' = sel.map
       \/ /\ pc = "localSearch"
          /\ UNCHANGED exploration_state_
    /\ attractions_' = <<>>
    /\ transport_modes_' = <<>>
    /\ time_info_' = <<>>
    /\ iteration' = iteration + 1
    /\ iterations_no_improvement' = iterations_no_improvement + 1
    /\ pc' = "loop"
    /\ last_op' = [name |-> "iterationTimeout", done |-> TRUE]
    /\ UNCHANGED <<catalog, input, output, p_approx_, elapsed>>

\* a pass whose ten draws yield no valid neighbor different from x
neighborhoodWithoutNeighbor ==
    /\ InBody
    /\ p_approx_ # <<>>
    /\ \E sel \in selectSolutionForExploration(p_approx_, exploration_state_),
          name \in NeighborhoodNames :
           LET x == p_approx_[sel.position]
           IN /\ MOVNSSolution_isValid(x)
              /\ \E x_prime \in generateRandomNeighbor(name, x) :
                     ~MOVNSSolution_isValid(x_prime) \/ MOVNSSolution_equals(x, x_prime)
              /\ exploration_state_' = markNeighborhoodAsExplored(p_approx_, sel.map, x, name)
    /\ iteration' = iteration + 1
    /\ iterations_no_improvement' = iterations_no_improvement + 1
    /\ last_op' = [name |-> "neighborhoodWithoutNeighbor", done |-> TRUE]
    /\ UNCHANGED <<catalog, attractions_, transport_modes_, time_info_, input, output,
                   p_approx_, elapsed, pc>>

\* a pass up to the call of localSearch: x is selected, a neighborhood drawn
\* and a valid neighbor different from x found; the neighbor becomes the
\* solution of the local search, last_op keeps x and the neighborhood
exploreNeighborhood ==
    /\ InBody
    /\ p_approx_ # <<>>
    /\ \E sel \in selectSolutionForExploration(p_approx_, exploration_state_),
          name \in NeighborhoodNames :
           LET x == p_approx_[sel.position]
           IN /\ MOVNSSolution_isValid(x)
              /\ \E x_prime \in generateRandomNeighbor(name, x) :
                     /\ MOVNSSolution_isValid(x_prime)
                     /\ ~MOVNSSolution_equals(x, x_prime)
                     /\ attractions_' = x_prime.attractions_
                     /\ transport_modes_' = x_prime.transport_modes_
                     /\ time_info_' = x_prime.time_info_
              /\ exploration_state_' = sel.map
              /\ last_op' = [name |-> "localSearch", done |-> FALSE,
                             x |-> x, neighborhood |-> name]
    /\ pc' = "localSearch"
    /\ UNCHANGED <<catalog, input, output, p_approx_, iteration,
                   iterations_no_improvement, elapsed>>

\* one round of the while loop of localSearch that replaces the solution
localSearch ==
    /\ pc = "localSearch"
    /\ \E neighbor \in TransportModeChange(this) :
           /\ Accepts(this, neighbor)
           /\ attractions_' = neighbor.attractions_
           /\ transport_modes_' = neighbor.transport_modes_
           /\ time_info_' = neighbor.time_info_
    /\ UNCHANGED <<catalog, last_op, input, output, p_approx_, exploration_state_,
                   iteration, iterations_no_improvement, elapsed, pc>>

\* MOVNS::updateApproximationSet on the solution localSearch returns, after
\* ten draws of the last round replaced nothing
updateApproximationSet ==
    /\ pc = "localSearch"
    /\ \E neighbor \in TransportModeChange(this) : ~Accepts(this, neighbor)
    /\ p_approx_' = UpdatedSet(p_approx_, this)
    /\ exploration_state_' = UpdatedMap(p_approx_, exploration_state_, this)
    /\ last_op' = [last_op EXCEPT !.name = "updateApproximationSet",
                                  !.done = UpdateModified(p_approx_, this)]
    /\ pc' = "updated"
    /\ UNCHANGED <<catalog, attractions_, transport_modes_, time_info_, input, output,
                   iteration, iterations_no_improvement, elapsed>>

\* the rest of the pass: the neighborhood is marked for x, the counters
\* move, and the map is cleared if every member is fully explored
closeIteration ==
    /\ pc = "updated"
    /\ exploration_state_' =
           ResetIfAllExplored(
               p_approx_,
               markNeighborhoodAsExplored(p_approx_, exploration_state_, last_op.x,
                                          last_op.neighborhood))
    /\ iteration' = iteration + 1
    /\ iterations_no_improvement' = IF last_op.done THEN 0 ELSE iterations_no_improvement + 1
    /\ attractions_' = <<>>
    /\ transport_modes_' = <<>>
    /\ time_info_' = <<>>
    /\ last_op' = [name |-> "closeIteration", done |-> TRUE]
    /\ pc' = "loop"
    /\ UNCHANGED <<catalog, input, output, p_approx_, elapsed>>

\* the loop is left: its condition fails, or the time check at the top of
\* the body breaks
leaveLoop ==
    /\ pc = "loop"
    /\ ~LoopCondition \/ TimeLimitReached(elapsed, input.max_time_seconds)
    /\ pc' = "done"
    /\ last_op' = [name |-> "leaveLoop", done |-> TRUE]
    /\ UNCHANGED <<catalog, attractions_, transport_modes_, time_info_, input, output,
                   p_approx_, exploration_state_, iteration, iterations_no_improvement,
                   elapsed>>

\* the wall clock: one more whole second since start_time
tick ==
    /\ pc = "loop"
    /\ elapsed < MaxSeconds
    /\ elapsed' = elapsed + 1
    /\ UNCHANGED <<catalog, attractions_, transport_modes_, time_info_, last_op, input,
                   output, p_approx_, exploration_state_, iteration,
                   iterations_no_improvement, pc>>

InitMOVNS ==
    /\ catalog \in Range(Catalogs)
    /\ attractions_ = <<>>
    /\ transport_modes_ = <<>>
    /\ time_info_ = <<>>
    /\ last_op = [name |-> "MOVNS", done |-> TRUE]
    /\ p_approx_ = <<>>
    /\ input \in [max_iterations : 1..MaxIterations,
                  max_time_seconds : 1..MaxSeconds,
                  max_iterations_no_improvement : 1..MaxIterations]
    /\ output = <<>>
    /\ exploration_state_ = <<>>
    /\ iteration = 0
    /\ iterations_no_improvement = 0
    /\ elapsed = 0
    /\ pc = "start"

\* the passes of run()
run ==
    \/ initializeApproximationSet
    \/ removeInvalidSelected
    \/ iterationTimeout
    \/ neighborhoodWithoutNeighbor
    \/ exploreNeighborhood
    \/ localSearch
    \/ updateApproximationSet
    \/ closeIteration
    \/ leaveLoop

NextMOVNS ==
    \/ run
    \/ tick

SpecMOVNS == InitMOVNS /\ [][NextMOVNS]_vars

\* run() keeps executing until it returns: weak fairness of run, written
\* with its enabling condition.  A pass or a step of the local search is
\* possible in every state in which the loop has not been left, so
\* ENABLED <<run>>_vars is pc # "done".
RunKeepsGoing == []<>(pc = "done") \/ []<><<run>>_vars

\* run() keeps executing and the wall clock keeps advancing
SpecMOVNSFair == SpecMOVNS /\ RunKeepsGoing /\ WF_vars(tick)

----------------------------------------------------------------------------
(* MOVNS::updateApproximationSet and markNeighborhoodAsExplored called on  *)
(* their own, with solutions run() never hands over (the empty one, ones   *)
(* that fail isValid)                                                      *)

\* the sequences a handed-over solution is built from
UpdateSequences ==
    {<<>>} \cup {<<a>> : a \in AttractionIds}
           \cup {q \in [1..2 -> AttractionIds] : q[1] # q[2]}

\* the neighborhood marked
MarkedNames == {"TransportModeChange"}

\* bool MOVNS::updateApproximationSet(const MOVNSSolution& solution)
call_updateApproximationSet(new_sequence) ==
    LET solution == RebuiltDefault(new_sequence)
    IN /\ Len(p_approx_) < MaxApprox
       /\ attractions_' = solution.attractions_
       /\ transport_modes_' = solution.transport_modes_
       /\ time_info_' = solution.time_info_
       /\ p_approx_' = UpdatedSet(p_approx_, solution)
       /\ exploration_state_' = UpdatedMap(p_approx_, exploration_state_, solution)
       /\ last_op' = [name |-> "updateApproximationSet",
                      done |-> UpdateModified(p_approx_, solution),
                      erased |-> IF UpdateModified(p_approx_, solution)
                                 THEN {i - 1 : i \in UpdateScan(p_approx_, solution, 1,
                                                                {}).dominated_indices}
                                 ELSE {}]
       /\ UNCHANGED <<catalog, input, output, iteration, iterations_no_improvement,
                      elapsed, pc>>

\* void MOVNS::markNeighborhoodAsExplored(solution, neighborhood_name), the
\* solution being the member at position i
call_markNeighborhoodAsExplored(i, name) ==
    /\ i \in 1..Len(p_approx_)
    /\ exploration_state_' =
           markNeighborhoodAsExplored(p_approx_, exploration_state_, p_approx_[i], name)
    /\ last_op' = [name |-> "markNeighborhoodAsExplored", done |-> TRUE, erased |-> {}]
    /\ UNCHANGED <<catalog, attractions_, transport_modes_, time_info_, p_approx_,
                   input, output, iteration, iterations_no_improvement, elapsed, pc>>

InitUpdate ==
    /\ catalog \in Range(Catalogs)
    /\ attractions_ = <<>>
    /\ transport_modes_ = <<>>
    /\ time_info_ = <<>>
    /\ last_op = [name |-> "MOVNS", done |-> TRUE]
    /\ p_approx_ = <<>>
    /\ input = <<>>
    /\ output = <<>>
    /\ exploration_state_ = <<>>
    /\ iteration = 0
    /\ iterations_no_improvement = 0
    /\ elapsed = 0
    /\ pc = "start"

NextUpdate ==
    \/ \E new_sequence \in UpdateSequences : call_updateApproximationSet(new_sequence)
    \/ \E i \in 1..MaxApprox, name \in MarkedNames :
           call_markNeighborhoodAsExplored(i, name)

SpecUpdate == InitUpdate /\ [][NextUpdate]_vars

----------------------------------------------------------------------------
(* Transport oracle by name.  A name is a sequence of characters; the      *)
(* static TransportMatrices are the fields of catalog, empty until         *)
(* Parser::loadTransportMatrices has run.  A query yields [threw,          *)
(* returned], returned being <<>> or the one value handed back.            *)

Chars == {"A", " "}

isspace(c) == c = " "

Names == UNION {[1..n -> Chars] : n \in 0..MaxNameLen}

\* name.erase(0, name.find_first_not_of(" \t\r\n"))
RECURSIVE TrimLeft(_)
TrimLeft(name) ==
    IF name # <<>> /\ isspace(Head(name)) THEN TrimLeft(Tail(name)) ELSE name

\* name.erase(name.find_last_not_of(" \t\r\n") + 1)
RECURSIVE TrimRight(_)
TrimRight(name) ==
    IF name # <<>> /\ isspace(name[Len(name)])
    THEN TrimRight(SubSeq(name, 1, Len(name) - 1)) ELSE name

normalizeAttractionName(name) == TrimRight(TrimLeft(name))

\* erase(remove_if(..., ::isspace), end())
no_spaces(name) == SelectSeq(name, LAMBDA c : ~isspace(c))

\* the indexing loop of loadTransportMatrices from the 0-based column i on
RECURSIVE IndexLoop(_, _, _)
IndexLoop(attraction_names, i, attraction_indices) ==
    IF i >= Len(attraction_names) THEN attraction_indices
    ELSE LET name == normalizeAttractionName(attraction_names[i + 1])
             by_name == [k \in (DOMAIN attraction_indices) \cup {name} |->
                            IF k = name THEN i ELSE attraction_indices[k]]
             by_both == [k \in (DOMAIN by_name) \cup {no_spaces(name)} |->
                            IF k = no_spaces(name) THEN i ELSE by_name[k]]
         IN IndexLoop(attraction_names, i + 1,
                      IF name = <<>> THEN attraction_indices
                      ELSE IF no_spaces(name) # name THEN by_both ELSE by_name)

\* the header lines a matrix file can start with
Headers ==
    { << <<" ", "A">>, <<"A", " ", "A">> >>,
      << <<"A", "A">>, <<"A">> >>,
      << <<" ">>, <<"A", "A", "A">> >> }

\* find(normalized), then find(no_spaces): the set holding the index found
FoundIndex(name) ==
    LET normalized == normalizeAttractionName(name)
    IN IF normalized \in DOMAIN catalog.attraction_indices
       THEN {catalog.attraction_indices[normalized]}
       ELSE IF no_spaces(normalized) \in DOMAIN catalog.attraction_indices
       THEN {catalog.attraction_indices[no_spaces(normalized)]}
       ELSE {}

Thrown == [threw |-> TRUE, returned |-> <<>>]

Value(v) == [threw |-> FALSE, returned |-> <<v>>]

\* the look-up shared by getDistance and getTravelTime
MatrixEntry(from, to, matrix) ==
    IF ~catalog.matrices_loaded THEN Thrown
    ELSE IF FoundIndex(from) = {} \/ FoundIndex(to) = {} THEN Thrown
    ELSE LET from_idx == CHOOSE i \in FoundIndex(from) : TRUE
             to_idx == CHOOSE i \in FoundIndex(to) : TRUE
         IN IF from_idx >= Len(matrix) \/ to_idx >= Len(matrix[from_idx + 1])
            THEN Thrown
            ELSE Value(matrix[from_idx + 1][to_idx + 1])

Transport_getDistance(from, to, mode) ==
    MatrixEntry(from, to, IF mode = WALK THEN catalog.walk_distances
                          ELSE catalog.car_distances)

Transport_getTravelTime(from, to, mode) ==
    MatrixEntry(from, to, IF mode = WALK THEN catalog.walk_times
                          ELSE catalog.car_times)

Transport_getTravelCost(from, to, mode) ==
    IF mode = WALK THEN Value(0)
    ELSE LET distance_m == Transport_getDistance(from, to, CAR)
         IN IF distance_m.threw THEN Value(30)
            ELSE Value((distance_m.returned[1] * COST_CAR_PER_KM) \div 1000)

Transport_determinePreferredMode(from, to) ==
    LET walk_time == Transport_getTravelTime(from, to, WALK)
    IN IF walk_time.threw THEN Value(CAR)
       ELSE IF walk_time.returned[1] <= WALK_TIME_PREFERENCE THEN Value(WALK)
       ELSE Value(CAR)

OracleFrame ==
    UNCHANGED <<attractions_, transport_modes_, time_info_, last_op, p_approx_, input,
                exploration_state_, iteration, iterations_no_improvement, elapsed, pc>>

\* bool Parser::loadTransportMatrices(...), the files holding the matrices
\* of the first catalog under the header line attraction_names
loadTransportMatrices(attraction_names) ==
    /\ ~catalog.matrices_loaded
    /\ catalog' = [attractions |-> Catalogs[1].attractions,
                   walk_times |-> Catalogs[1].walk_times,
                   car_times |-> Catalogs[1].car_times,
                   car_distances |-> Catalogs[1].car_distances,
                   walk_distances |-> Catalogs[1].walk_distances,
                   attraction_indices |-> IndexLoop(attraction_names, 0, <<>>),
                   attraction_names |-> attraction_names,
                   matrices_loaded |-> TRUE]
    /\ output' = [op |-> "loadTransportMatrices", from |-> <<>>, to |-> <<>>,
                  mode |-> CAR, result |-> Value(TRUE)]
    /\ OracleFrame

call_getDistance(from, to, mode) ==
    /\ output' = [op |-> "getDistance", from |-> from, to |-> to, mode |-> mode,
                  result |-> Transport_getDistance(from, to, mode)]
    /\ UNCHANGED catalog
    /\ OracleFrame

call_getTravelTime(from, to, mode) ==
    /\ output' = [op |-> "getTravelTime", from |-> from, to |-> to, mode |-> mode,
                  result |-> Transport_getTravelTime(from, to, mode)]
    /\ UNCHANGED catalog
    /\ OracleFrame

call_getTravelCost(from, to, mode) ==
    /\ output' = [op |-> "getTravelCost", from |-> from, to |-> to, mode |-> mode,
                  result |-> Transport_getTravelCost(from, to, mode)]
    /\ UNCHANGED catalog
    /\ OracleFrame

call_determinePreferredMode(from, to) ==
    /\ output' = [op |-> "determinePreferredMode", from |-> from, to |-> to,
                  mode |-> CAR, result |-> Transport_determinePreferredMode(from, to)]
    /\ UNCHANGED catalog
    /\ OracleFrame

InitOracle ==
    /\ catalog = [attractions |-> <<>>, walk_times |-> <<>>, car_times |-> <<>>,
                  car_distances |-> <<>>, walk_distances |-> <<>>,
                  attraction_indices |-> <<>>, attraction_names |-> <<>>,
                  matrices_loaded |-> FALSE]
    /\ attractions_ = <<>>
    /\ transport_modes_ = <<>>
    /\ time_info_ = <<>>
    /\ last_op = [name |-> "main", done |-> TRUE]
    /\ p_approx_ = <<>>
    /\ input = <<>>
    /\ output = [op |-> "main", from |-> <<>>, to |-> <<>>, mode |-> CAR,
                 result |-> Value(TRUE)]
    /\ exploration_state_ = <<>>
    /\ iteration = 0
    /\ iterations_no_improvement = 0
    /\ elapsed = 0
    /\ pc = "start"

NextOracle ==
    \/ \E attraction_names \in Headers : loadTransportMatrices(attraction_names)
    \/ \E from \in Names, to \in Names, mode \in TransportMode :
           \/ call_getDistance(from, to, mode)
           \/ call_getTravelTime(from, to, mode)
           \/ call_getTravelCost(from, to, mode)
    \/ \E from \in Names, to \in Names : call_determinePreferredMode(from, to)

SpecOracle == InitOracle /\ [][NextOracle]_vars

----------------------------------------------------------------------------
(* Dominance operations of the other solution types.  An objective vector  *)
(* is a sequence; the empty sequence is the vector of an individual that   *)
(* has not been evaluated.                                                 *)

\* loop of SolutionBase::isDominatedBy from index i on
RECURSIVE IsDominatedByLoop(_, _, _, _)
IsDominatedByLoop(this_obj, other_objectives, i, at_least_one_worse) ==
    IF i > Len(this_obj) THEN ~at_least_one_worse
    ELSE IF this_obj[i] > other_objectives[i] THEN TRUE
    ELSE IsDominatedByLoop(this_obj, other_objectives, i + 1,
                           at_least_one_worse \/ this_obj[i] < other_objectives[i])

\* outcome of a call that returned the Boolean b
Returned(b) == IF b THEN "true" ELSE "false"

\* SolutionBase::isDominatedBy: the value returned, or the exception thrown
isDominatedBy(this_obj, other_objectives) ==
    IF Len(this_obj) # Len(other_objectives) THEN "invalid_argument"
    ELSE Returned(IsDominatedByLoop(this_obj, other_objectives, 1, FALSE))

\* tourist::Solution::dominates, on the objective vectors of *this and other
Solution_dominates(this_obj, other_obj) == isDominatedBy(this_obj, other_obj)

\* NSGA2Base::Individual::dominates (both individuals evaluated)
NSGA2Base_dominates(objectives_, other_obj) ==
    DominatesLoop(objectives_, other_obj, 1, FALSE)

\* the range-normalized loop of NSGA2::Individual::dominates from index i on.
\* norm_this > norm_other + EPSILON is this - other > range * EPSILON, which
\* for whole numbers is this - other > range \div INV_EPSILON
RECURSIVE NormalizedLoop(_, _, _, _, _)
NormalizedLoop(objectives_, other_obj, ranges, i, at_least_one_better) ==
    IF i > Len(objectives_) THEN at_least_one_better
    ELSE LET range == ranges[i].second - ranges[i].first
             slack == IF range = 0 THEN 0 ELSE range \div INV_EPSILON
         IN IF objectives_[i] - other_obj[i] > slack THEN FALSE
            ELSE NormalizedLoop(objectives_, other_obj, ranges, i + 1,
                                at_least_one_better
                                    \/ other_obj[i] - objectives_[i] > slack)

\* NSGA2::Individual::dominates; objective_ranges_ptr is <<>> when null and
\* the shared (min, max) ranges otherwise
NSGA2_dominates(objectives_, other_obj, objective_ranges_ptr) ==
    IF objectives_ = <<>> \/ other_obj = <<>> THEN FALSE
    ELSE IF Len(objectives_) # Len(other_obj) THEN FALSE
    ELSE IF objective_ranges_ptr = <<>>
    THEN DominatesLoop(objectives_, other_obj, 1, FALSE)
    ELSE NormalizedLoop(objectives_, other_obj, objective_ranges_ptr, 1, FALSE)

\* NSGA2::updateObjectiveRanges: the ranges left in objective_ranges_, which
\* start from the ranges of earlier populations (<<>> if there were none);
\* pop is a sequence of objective vectors
updateObjectiveRanges(objective_ranges_, pop) ==
    IF pop = <<>> \/ pop[1] = <<>> THEN objective_ranges_
    ELSE LET num_objectives == Len(pop[1])
             counted == {k \in 1..Len(pop) : Len(pop[k]) = num_objectives}
             lo(i) == CHOOSE x \in {pop[k][i] : k \in counted} :
                          \A y \in {pop[k][i] : k \in counted} : x <= y
             hi(i) == CHOOSE x \in {pop[k][i] : k \in counted} :
                          \A y \in {pop[k][i] : k \in counted} : x >= y
             first(i) == IF i <= Len(objective_ranges_)
                         THEN Min(objective_ranges_[i].first, lo(i)) ELSE lo(i)
             second(i) == IF i <= Len(objective_ranges_)
                          THEN Max(objective_ranges_[i].second, hi(i)) ELSE hi(i)
         IN [i \in 1..Max(num_objectives, Len(objective_ranges_)) |->
                IF i > num_objectives THEN objective_ranges_[i]
                ELSE [first |-> first(i),
                      second |-> IF second(i) = first(i) THEN first(i) + 1
                                 ELSE second(i)]]

\* objective vectors of the comparisons: cost, time, then negated counts
ObjectiveVectors(n) ==
    {[i \in 1..n |-> IF i <= 2 THEN q[i] ELSE -q[i]] : q \in [1..n -> 0..MaxObjective]}

\* ranges left by an earlier population that held a heavily penalised
\* individual: wide on cost and on time
WideRanges ==
    << [first |-> 0, second |-> INV_EPSILON], [first |-> 0, second |-> INV_EPSILON],
       [first |-> -MaxObjective, second |-> 0] >>

CompareOutput(op, forward, backward) ==
    [op |-> op, forward |-> forward, backward |-> backward]

\* u.dominates(v) and v.dominates(u) on two MOVNSSolution objective vectors
call_MOVNSSolution_dominates ==
    /\ Len(input.u) = 4 /\ Len(input.v) = 4
    /\ output' = CompareOutput("MOVNSSolution::dominates",
                               Returned(DominatesLoop(input.u, input.v, 1, FALSE)),
                               Returned(DominatesLoop(input.v, input.u, 1, FALSE)))
    /\ UNCHANGED <<run_state, catalog, attractions_, transport_modes_, time_info_, last_op,
                   p_approx_, input>>

call_NSGA2Base_dominates ==
    /\ Len(input.u) = 3 /\ Len(input.v) = 3
    /\ output' = CompareOutput("NSGA2Base::Individual::dominates",
                               Returned(NSGA2Base_dominates(input.u, input.v)),
                               Returned(NSGA2Base_dominates(input.v, input.u)))
    /\ UNCHANGED <<run_state, catalog, attractions_, transport_modes_, time_info_, last_op,
                   p_approx_, input>>

\* a.dominates(b), which is also a < b, and b.dominates(a), which is a > b
call_Solution_dominates ==
    /\ output' = CompareOutput("Solution::dominates",
                               Solution_dominates(input.u, input.v),
                               Solution_dominates(input.v, input.u))
    /\ UNCHANGED <<run_state, catalog, attractions_, transport_modes_, time_info_, last_op,
                   p_approx_, input>>

call_NSGA2_dominates ==
    /\ \E objective_ranges_ptr \in
           {<<>>, updateObjectiveRanges(<<>>, <<input.u, input.v>>),
            updateObjectiveRanges(WideRanges, <<input.u, input.v>>)} :
         output' = CompareOutput("NSGA2::Individual::dominates",
                       Returned(NSGA2_dominates(input.u, input.v, objective_ranges_ptr)),
                       Returned(NSGA2_dominates(input.v, input.u, objective_ranges_ptr)))
    /\ UNCHANGED <<run_state, catalog, attractions_, transport_modes_, time_info_, last_op,
                   p_approx_, input>>

InitDom ==
    /\ catalog = Catalogs[1]
    /\ attractions_ = <<>>
    /\ transport_modes_ = <<>>
    /\ time_info_ = <<>>
    /\ last_op = [name |-> "dominates", done |-> TRUE]
    /\ p_approx_ = <<>>
    /\ input \in [u : ObjectiveVectors(0) \cup ObjectiveVectors(3) \cup ObjectiveVectors(4),
                  v : ObjectiveVectors(0) \cup ObjectiveVectors(3) \cup ObjectiveVectors(4)]
    /\ output = <<>>
    /\ exploration_state_ = <<>>
    /\ iteration = 0
    /\ iterations_no_improvement = 0
    /\ elapsed = 0
    /\ pc = "start"

NextDom ==
    \/ call_MOVNSSolution_dominates
    \/ call_NSGA2Base_dominates
    \/ call_Solution_dominates
    \/ call_NSGA2_dominates

SpecDom == InitDom /\ [][NextDom]_vars

----------------------------------------------------------------------------
(* NSGA-II: fast non-dominated sort.  A population is a sequence of the    *)
(* objective vectors of its (distinct, evaluated) individuals; an          *)
(* individual is named by its position in the population.                  *)

\* the members of S in increasing order
RECURSIVE Ascending(_)
Ascending(S) ==
    IF S = {} THEN <<>>
    ELSE LET m == CHOOSE x \in S : \A y \in S : x <= y
         IN <<m>> \o Ascending(S \ {m})

\* mutant of FirstFront: an individual dominated once still enters front 0
FirstFront_AllowOne(n) == Ascending({p \in DOMAIN n : n[p] <= 1})

\* the individuals whose domination counter is zero, in population order
FirstFront(n) == Ascending({p \in DOMAIN n : n[p] = 0})

\* S_p of every p of the front, one after the other
RECURSIVE DominatedBy(_, _)
DominatedBy(front, S) ==
    IF front = <<>> THEN <<>> ELSE S[Head(front)] \o DominatedBy(Tail(front), S)

\* the decrements of one pass: q enters the next front when n[q] reaches 0
RECURSIVE Drain(_, _, _)
Drain(qs, n, next_front) ==
    IF qs = <<>> THEN [n |-> n, next_front |-> next_front]
    ELSE LET q == Head(qs)
             n2 == [n EXCEPT ![q] = @ - 1]
         IN Drain(Tail(qs), n2,
                  IF n2[q] = 0 THEN Append(next_front, q) ELSE next_front)

\* mutant of SubsequentFronts: the loop stops after the first front
SubsequentFronts_Stopped(fronts, S, n) == fronts

\* the loop that generates the fronts after the first one
RECURSIVE SubsequentFronts(_, _, _)
SubsequentFronts(fronts, S, n) ==
    LET pass == Drain(DominatedBy(fronts[Len(fronts)], S), n, <<>>)
    IN IF pass.next_front = <<>> THEN fronts
       ELSE SubsequentFronts(Append(fronts, pass.next_front), S, pass.n)

\* NSGA2Base::fastNonDominatedSort
NSGA2Base_fastNonDominatedSort(pop) ==
    LET P == 1..Len(pop)
        S == [p \in P |-> Ascending({q \in P \ {p} :
                              NSGA2Base_dominates(pop[p], pop[q])})]
        n == [p \in P |-> Cardinality({q \in P \ {p} :
                              /\ ~NSGA2Base_dominates(pop[p], pop[q])
                              /\ NSGA2Base_dominates(pop[q], pop[p])})]
    IN IF FirstFront(n) = <<>> THEN <<>>
       ELSE SubsequentFronts(<<FirstFront(n)>>, S, n)

\* NSGA2::fastNonDominatedSort; every individual points at the ranges
NSGA2_fastNonDominatedSort(pop, ranges) ==
    LET P == 1..Len(pop)
        dom(i, j) == NSGA2_dominates(pop[i], pop[j], ranges)
        \* the pair (i, j), i < j, is looked at once: i first, then j
        wins(i, j) == IF i < j THEN dom(i, j) ELSE ~dom(j, i) /\ dom(i, j)
        dominated_sets == [i \in P |-> Ascending({j \in P \ {i} : wins(i, j)})]
        domination_counts == [j \in P |-> Cardinality({i \in P \ {j} : wins(i, j)})]
    IN IF FirstFront(domination_counts) = <<>> THEN << <<>> >>
       ELSE SubsequentFronts(<<FirstFront(domination_counts)>>,
                             dominated_sets, domination_counts)

\* rank each individual holds after the sort (0 where the sort set none)
RankOf(fronts, pop) ==
    [p \in 1..Len(pop) |->
        IF \E i \in 1..Len(fronts) : p \in Range(fronts[i])
        THEN (CHOOSE i \in 1..Len(fronts) : p \in Range(fronts[i])) - 1
        ELSE 0]

----------------------------------------------------------------------------
(* NSGA-II: crowding distance and replacement.  std::sort leaves the order *)
(* of equal keys open, so each sort yields any order its comparator        *)
(* accepts.  A distance is infinite, or the quotient scaled / D where D is *)
(* the product of the non-zero objective ranges of the front.              *)

Dist(infinite, scaled) == [infinite |-> infinite, scaled |-> scaled]

\* mutant of DistGreater: the comparison of the final sort is reversed
DistGreater_Reversed(a, b) ==
    IF b.infinite THEN ~a.infinite ELSE ~a.infinite /\ b.scaled > a.scaled

\* a->getCrowdingDistance() > b->getCrowdingDistance()
DistGreater(a, b) ==
    IF a.infinite THEN ~b.infinite ELSE ~b.infinite /\ a.scaled > b.scaled

\* every order of the members of front that a std::sort can leave, where
\* before holds the pairs <<a, b>> for which the comparator answers true
SortedOrders(front, before) ==
    {perm \in {[i \in 1..Len(front) |-> front[f[i]]] :
                  f \in Permutations(1..Len(front))} :
        \A i, j \in 1..Len(front) : i < j => <<perm[j], perm[i]>> \notin before}

FrontRange(front, pop, obj) ==
    LET vals == {pop[front[i]][obj] : i \in 1..Len(front)}
    IN (CHOOSE x \in vals : \A y \in vals : x >= y)
       - (CHOOSE x \in vals : \A y \in vals : x <= y)

RECURSIVE CommonDenominator(_, _, _)
CommonDenominator(front, pop, obj) ==
    IF obj = 0 THEN 1
    ELSE (IF FrontRange(front, pop, obj) = 0 THEN 1 ELSE FrontRange(front, pop, obj))
         * CommonDenominator(front, pop, obj - 1)

\* one objective of calculateCrowdingDistances, for the sorted order given
CrowdRound(d, sorted, pop, obj, D) ==
    LET n == Len(sorted)
        range == pop[sorted[n]][obj] - pop[sorted[1]][obj]
        ends == [d EXCEPT ![sorted[1]] = Dist(TRUE, 0), ![sorted[n]] = Dist(TRUE, 0)]
    IN IF range = 0 THEN ends
       ELSE [p \in DOMAIN d |->
               IF \E i \in 2..(n - 1) : sorted[i] = p
               THEN LET i == CHOOSE k \in 2..(n - 1) : sorted[k] = p
                    IN IF ends[p].infinite THEN ends[p]
                       ELSE Dist(FALSE, ends[p].scaled
                                 + (pop[sorted[i + 1]][obj] - pop[sorted[i - 1]][obj])
                                   * (D \div range))
               ELSE ends[p]]

\* the objectives obj, obj + 1, ... of calculateCrowdingDistances; in_place
\* tells whether the front itself is sorted (NSGA2Base) or a copy (NSGA2)
RECURSIVE CrowdFrom(_, _, _, _, _)
CrowdFrom(states, pop, obj, D, in_place) ==
    IF states = {} \/ obj > Len(pop[1]) THEN states
    ELSE CrowdFrom(
           UNION {{[front |-> IF in_place THEN sorted ELSE s.front,
                    d |-> CrowdRound(s.d, sorted, pop, obj, D)] :
                      sorted \in SortedOrders(s.front,
                                     {<<a, b>> \in Range(s.front) \X Range(s.front) :
                                         pop[a][obj] < pop[b][obj]})} :
                  s \in states},
           pop, obj + 1, D, in_place)

\* calculateCrowdingDistances of either engine: the possible outcomes
calculateCrowdingDistances(front, d, pop, in_place) ==
    IF front = <<>> THEN {[front |-> front, d |-> d]}
    ELSE IF Len(front) = 1
    THEN {[front |-> front, d |-> [d EXCEPT ![front[1]] = Dist(TRUE, 0)]]}
    ELSE CrowdFrom({[front |-> front,
                     d |-> [p \in DOMAIN d |->
                              IF p \in Range(front) THEN Dist(FALSE, 0) ELSE d[p]]]},
                   pop, 1, CommonDenominator(front, pop, Len(pop[1])), in_place)

\* the loop of selectNextGeneration that copies whole fronts
RECURSIVE WholeFronts(_, _, _, _, _, _, _)
WholeFronts(states, fronts, i, taken, population_size, pop, in_place) ==
    IF i <= Len(fronts) /\ taken + Len(fronts[i]) <= population_size
    THEN WholeFronts(
           UNION {{[next_gen |-> s.next_gen \o c.front, d |-> c.d] :
                      c \in calculateCrowdingDistances(fronts[i], s.d, pop, in_place)} :
                  s \in states},
           fronts, i + 1, taken + Len(fronts[i]), population_size, pop, in_place)
    ELSE [states |-> states, i |-> i, taken |-> taken]

\* selectNextGeneration after the sort: the possible next generations with
\* the crowding distances the individuals then hold
selectNextGeneration(fronts, pop, population_size, in_place) ==
    LET zero == [p \in 1..Len(pop) |-> Dist(FALSE, 0)]
        whole == WholeFronts({[next_gen |-> <<>>, d |-> zero]}, fronts, 1, 0,
                             population_size, pop, in_place)
        remaining == population_size - whole.taken
    IN IF whole.taken < population_size /\ whole.i <= Len(fronts)
       THEN UNION {UNION {{[next_gen |-> s.next_gen
                                \o SubSeq(sorted, 1, Min(remaining, Len(sorted))),
                            d |-> c.d] :
                              sorted \in SortedOrders(c.front,
                                  {<<a, b>> \in Range(c.front) \X Range(c.front) :
                                      DistGreater(c.d[a], c.d[b])})} :
                          c \in calculateCrowdingDistances(fronts[whole.i], s.d,
                                                           pop, in_place)} :
                   s \in whole.states}
       ELSE whole.states

----------------------------------------------------------------------------
(* The sort and the replacement applied to small populations: one call is  *)
(* made on each population drawn.                                          *)

\* objective vectors of evaluated individuals: cost, time, -attractions
SortVectors ==
    {<<c, t, -k>> : c \in 0..MaxObjective, t \in 0..1, k \in 1..2}

Populations ==
    UNION {[1..len -> SortVectors] : len \in 0..MaxPop}

\* what objective_ranges_ may hold before a generation is replaced
PriorRanges == {<<>>, WideRanges}

SortOutput(op, ranges, fronts) ==
    [op |-> op, ranges |-> ranges, fronts |-> fronts,
     rank |-> RankOf(fronts, input.pop)]

SelectOutput(op, ranges, fronts, population_size, s) ==
    [op |-> op, ranges |-> ranges, fronts |-> fronts,
     rank |-> RankOf(fronts, input.pop), population_size |-> population_size,
     next_gen |-> s.next_gen, crowding_distance |-> s.d]

call_NSGA2Base_fastNonDominatedSort ==
    /\ output = <<>>
    /\ output' = SortOutput("NSGA2Base::fastNonDominatedSort", <<>>,
                            NSGA2Base_fastNonDominatedSort(input.pop))
    /\ UNCHANGED <<run_state, catalog, attractions_, transport_modes_, time_info_, last_op,
                   p_approx_, input>>

\* the individuals hold no ranges yet, or the ranges of the last update
call_NSGA2_fastNonDominatedSort ==
    /\ output = <<>>
    /\ \E ranges \in {<<>>} \cup {updateObjectiveRanges(prior, input.pop) :
                                      prior \in PriorRanges} :
           output' = SortOutput("NSGA2::fastNonDominatedSort", ranges,
                                NSGA2_fastNonDominatedSort(input.pop, ranges))
    /\ UNCHANGED <<run_state, catalog, attractions_, transport_modes_, time_info_, last_op,
                   p_approx_, input>>

\* parents are the first half of input.pop and offspring the second half
call_NSGA2Base_selectNextGeneration ==
    /\ output = <<>>
    /\ Len(input.pop) >= 2 /\ Len(input.pop) % 2 = 0
    /\ LET fronts == NSGA2Base_fastNonDominatedSort(input.pop)
           population_size == Len(input.pop) \div 2
       IN \E s \in selectNextGeneration(fronts, input.pop, population_size, TRUE) :
              output' = SelectOutput("NSGA2Base::selectNextGeneration", <<>>,
                                     fronts, population_size, s)
    /\ UNCHANGED <<run_state, catalog, attractions_, transport_modes_, time_info_, last_op,
                   p_approx_, input>>

call_NSGA2_selectNextGeneration ==
    /\ output = <<>>
    /\ Len(input.pop) >= 2 /\ Len(input.pop) % 2 = 0
    /\ \E prior \in PriorRanges :
         LET ranges == updateObjectiveRanges(prior, input.pop)
             fronts == NSGA2_fastNonDominatedSort(input.pop, ranges)
             population_size == Len(input.pop) \div 2
         IN \E s \in selectNextGeneration(fronts, input.pop, population_size, FALSE) :
                output' = SelectOutput("NSGA2::selectNextGeneration", ranges,
                                       fronts, population_size, s)
    /\ UNCHANGED <<run_state, catalog, attractions_, transport_modes_, time_info_, last_op,
                   p_approx_, input>>

InitSort ==
    /\ catalog = Catalogs[1]
    /\ attractions_ = <<>>
    /\ transport_modes_ = <<>>
    /\ time_info_ = <<>>
    /\ last_op = [name |-> "init", done |-> TRUE]
    /\ p_approx_ = <<>>
    /\ input \in [pop : Populations]
    /\ output = <<>>
    /\ exploration_state_ = <<>>
    /\ iteration = 0
    /\ iterations_no_improvement = 0
    /\ elapsed = 0
    /\ pc = "start"

NextSort ==
    \/ call_NSGA2Base_fastNonDominatedSort
    \/ call_NSGA2_fastNonDominatedSort
    \/ call_NSGA2Base_selectNextGeneration
    \/ call_NSGA2_selectNextGeneration

SpecSort == InitSort /\ [][NextSort]_vars

----------------------------------------------------------------------------
(* calculateCrowdingDistances called on its own: the front is the whole    *)
(* population drawn, in the order it was drawn.                            *)

WholeFront == [i \in 1..Len(input.pop) |-> i]

CrowdingOutput(op, c) ==
    [op |-> op, front |-> c.front, crowding_distance |-> c.d]

\* void NSGA2Base::calculateCrowdingDistances(Front& front) const
call_NSGA2Base_calculateCrowdingDistances ==
    /\ output = <<>>
    /\ \E c \in calculateCrowdingDistances(
                    WholeFront, [p \in 1..Len(input.pop) |-> Dist(FALSE, 0)],
                    input.pop, TRUE) :
           output' = CrowdingOutput("NSGA2Base::calculateCrowdingDistances", c)
    /\ UNCHANGED <<run_state, catalog, attractions_, transport_modes_, time_info_, last_op,
                   p_approx_, input>>

\* void NSGA2::calculateCrowdingDistances(Front& front) const
call_NSGA2_calculateCrowdingDistances ==
    /\ output = <<>>
    /\ \E c \in calculateCrowdingDistances(
                    WholeFront, [p \in 1..Len(input.pop) |-> Dist(FALSE, 0)],
                    input.pop, FALSE) :
           output' = CrowdingOutput("NSGA2::calculateCrowdingDistances", c)
    /\ UNCHANGED <<run_state, catalog, attractions_, transport_modes_, time_info_, last_op,
                   p_approx_, input>>

NextCrowding ==
    \/ call_NSGA2Base_calculateCrowdingDistances
    \/ call_NSGA2_calculateCrowdingDistances

InitCrowding ==
    /\ catalog = Catalogs[1]
    /\ attractions_ = <<>>
    /\ transport_modes_ = <<>>
    /\ time_info_ = <<>>
    /\ last_op = [name |-> "init", done |-> TRUE]
    /\ p_approx_ = <<>>
    /\ input \in [pop : UNION {[1..len -> SortVectors] : len \in 0..MaxFront}]
    /\ output = <<>>
    /\ exploration_state_ = <<>>
    /\ iteration = 0
    /\ iterations_no_improvement = 0
    /\ elapsed = 0
    /\ pc = "start"

SpecCrowding == InitCrowding /\ [][NextCrowding]_vars

----------------------------------------------------------------------------
(* tourist::Route, the route the NSGA-II individuals build and validate.   *)
(* The object is held in attractions_, transport_modes_ and time_info_.    *)

\* one stop of Route::recalculateTimeInfo; old is the entry the resize kept
Route_TimeInfoAt(a, current_time, old) ==
    LET waits == ~isOpenAt(a, current_time) /\ current_time < getOpeningTime(a)
        arrival == IF waits THEN getOpeningTime(a) ELSE current_time
    IN [arrival_time |-> arrival,
        departure_time |-> arrival + getVisitTime(a),
        wait_time |-> IF waits THEN getOpeningTime(a) - current_time
                      ELSE old.wait_time]

RECURSIVE Route_RecalcLoop(_, _, _, _, _)
Route_RecalcLoop(attrs, modes, infos, i, acc) ==
    IF i > Len(attrs) THEN acc
    ELSE LET travel_time == getTravelTime(attrs[i - 1], attrs[i], modes[i - 1])
             info == Route_TimeInfoAt(attrs[i],
                         acc[i - 1].departure_time + travel_time, infos[i])
         IN Route_RecalcLoop(attrs, modes, infos, i + 1, Append(acc, info))

\* Route::recalculateTimeInfo; infos is time_info_ after the resize
Route_recalculateTimeInfo(attrs, modes, infos) ==
    IF attrs = <<>> THEN infos
    ELSE Route_RecalcLoop(attrs, modes, infos, 2,
                          << Route_TimeInfoAt(attrs[1], DAY_START, infos[1]) >>)

\* Route::addAttraction: CAR stands for "no mode given", any other mode is
\* stored as it is
Route_addAttraction(r, a, mode) ==
    LET modes == IF r.attractions_ = <<>> THEN r.transport_modes_
                 ELSE Append(r.transport_modes_,
                             IF mode = CAR
                             THEN determinePreferredMode(
                                      r.attractions_[Len(r.attractions_)], a)
                             ELSE mode)
        attrs == Append(r.attractions_, a)
        resized == Append(r.time_info_,
                          [arrival_time |-> 0, departure_time |-> 0, wait_time |-> 0])
    IN MOVNSSolutionOf(attrs, modes, Route_recalculateTimeInfo(attrs, modes, resized))

\* Route::getTotalTime
Route_getTotalTime(r) ==
    IF r.attractions_ = <<>> THEN 0
    ELSE SumTo([i \in 1..Len(r.attractions_) |->
                   getVisitTime(r.attractions_[i])
                   + (IF i <= Len(r.time_info_) THEN r.time_info_[i].wait_time ELSE 0)],
               Len(r.attractions_))
         + SumTo([i \in 1..Min(Len(r.attractions_) - 1, Len(r.transport_modes_)) |->
                     getTravelTime(r.attractions_[i], r.attractions_[i + 1],
                                   r.transport_modes_[i])],
                 Min(Len(r.attractions_) - 1, Len(r.transport_modes_)))

\* Route::isValidSequence
Route_isValidSequence(r) ==
    \A i \in 1..Len(r.attractions_) :
        i <= Len(r.time_info_) =>
            /\ isOpenAt(r.attractions_[i], r.time_info_[i].arrival_time)
            /\ isOpenAt(r.attractions_[i], r.time_info_[i].departure_time)

\* Route::isValid: checkTimeConstraints() && checkMaxDailyTime()
Route_isValid(r) ==
    /\ Route_isValidSequence(r)
    /\ Route_getTotalTime(r) <= DAILY_TIME_LIMIT

call_Route_addAttraction(a, mode) ==
    /\ Len(attractions_) < MaxRouteLen
    /\ LET r == Route_addAttraction(this, a, mode)
       IN /\ attractions_' = r.attractions_
          /\ transport_modes_' = r.transport_modes_
          /\ time_info_' = r.time_info_
    /\ last_op' = [name |-> "Route::addAttraction", done |-> TRUE]
    /\ output' = <<>>
    /\ UNCHANGED <<run_state, catalog, p_approx_, input>>

\* Route::clear
call_Route_clear ==
    /\ attractions_ # <<>>
    /\ attractions_' = <<>>
    /\ transport_modes_' = <<>>
    /\ time_info_' = <<>>
    /\ last_op' = [name |-> "Route::clear", done |-> TRUE]
    /\ output' = <<>>
    /\ UNCHANGED <<run_state, catalog, p_approx_, input>>

\* isValid() of the route, and of a MOVNSSolution holding the same fields
call_Route_isValid ==
    /\ output = <<>>
    /\ output' = [op |-> "isValid", route |-> Route_isValid(this),
                  solution |-> MOVNSSolution_isValid(this)]
    /\ last_op' = [name |-> "Route::isValid", done |-> TRUE]
    /\ UNCHANGED <<run_state, catalog, attractions_, transport_modes_, time_info_,
                   p_approx_, input>>

InitTouristRoute ==
    /\ catalog \in Range(Catalogs)
    /\ attractions_ = <<>>
    /\ transport_modes_ = <<>>
    /\ time_info_ = <<>>
    /\ last_op = [name |-> "Route", done |-> TRUE]
    /\ p_approx_ = <<>>
    /\ input = <<>>
    /\ output = <<>>
    /\ exploration_state_ = <<>>
    /\ iteration = 0
    /\ iterations_no_improvement = 0
    /\ elapsed = 0
    /\ pc = "start"

NextTouristRoute ==
    \/ \E a \in AttractionIds, mode \in TransportMode : call_Route_addAttraction(a, mode)
    \/ call_Route_clear
    \/ call_Route_isValid

SpecTouristRoute == InitTouristRoute /\ [][NextTouristRoute]_vars

----------------------------------------------------------------------------
(* Evaluation of the NSGA-II individuals.  An individual is [chromosome,   *)
(* transport_modes]; the population is held in input, the objective        *)
(* vectors evaluatePopulation leaves in output.                            *)

\* the first catalog with a long visit behind a high entrance fee
CostlyCatalog ==
    [Catalogs[1] EXCEPT !.attractions[1] = Attr(0, 1439, 840, 1200, "N1")]

\* Route::getTotalCost
Route_getTotalCost(r) ==
    SumTo([i \in 1..Len(r.attractions_) |-> getCost(r.attractions_[i])],
          Len(r.attractions_))
    + SumTo([i \in 1..Min(Len(r.attractions_) - 1, Len(r.transport_modes_)) |->
                getTravelCost(r.attractions_[i], r.attractions_[i + 1],
                              r.transport_modes_[i])],
            Min(Len(r.attractions_) - 1, Len(r.transport_modes_)))

\* NSGA2Base::Individual::constructRoute from gene i on
RECURSIVE constructRoute(_, _, _, _)
constructRoute(chromosome_, modes, i, route) ==
    IF i > Len(chromosome_) THEN route
    ELSE constructRoute(chromosome_, modes, i + 1,
                        Route_addAttraction(route, chromosome_[i],
                            IF i >= 2 /\ i - 1 <= Len(modes) THEN modes[i - 1]
                            ELSE CAR))

\* NSGA2Base::Individual::evaluate (second axis scaled by max_time)
NSGA2Base_evaluate(ind) ==
    LET route == constructRoute(ind.chromosome, ind.transport_modes, 1, EmptySolution)
        total_cost == Route_getTotalCost(route)
        total_time == Route_getTotalTime(route)
        num_attractions == Len(route.attractions_)
        is_valid == Route_isValid(route)
    IN IF ~is_valid \/ num_attractions = 0
       THEN [penalized |-> TRUE,
             objectives_ |-> <<1000, DAILY_TIME_LIMIT * max_time, -1>>]
       ELSE [penalized |-> FALSE,
             objectives_ |-> <<total_cost, PenalizedTime(total_time),
                               -num_attractions>>]

\* the loop of NSGA2::Individual::calculateTimeAndCosts from gene i on
RECURSIVE TimeAndCostsLoop(_, _, _, _, _, _)
TimeAndCostsLoop(genes, modes, i, current_time, total_time_, total_cost_) ==
    IF i > Len(genes) THEN [total_time_ |-> total_time_, total_cost_ |-> total_cost_]
    ELSE LET a == genes[i]
             closed == ~isOpenAt(a, current_time)
             waits == closed /\ current_time < getOpeningTime(a)
             arrival_time == IF waits THEN getOpeningTime(a) ELSE current_time
             adjusted == total_time_
                         + (IF waits THEN getOpeningTime(a) - current_time
                            ELSE IF closed THEN 30 ELSE 0)
             departure_time == arrival_time + getVisitTime(a)
             moves == i < Len(genes) /\ i <= Len(modes)
             duration == IF moves THEN getTravelTime(a, genes[i + 1], modes[i]) ELSE 0
             cost == IF moves THEN getTravelCost(a, genes[i + 1], modes[i]) ELSE 0
         IN TimeAndCostsLoop(genes, modes, i + 1, departure_time + duration,
                             adjusted + getVisitTime(a) + duration,
                             total_cost_ + getCost(a) + cost)

\* NSGA2::Individual::calculateTimeAndCosts
calculateTimeAndCosts(ind) ==
    LET totals == TimeAndCostsLoop(ind.chromosome, ind.transport_modes, 1,
                                   DAY_START, 0, 0)
    IN IF ind.chromosome = <<>>
       THEN [is_valid_ |-> FALSE, total_time_ |-> 0, total_cost_ |-> 0]
       ELSE [is_valid_ |-> totals.total_time_ * 10 <= DAILY_TIME_LIMIT * 12,
             total_time_ |-> totals.total_time_,
             total_cost_ |-> totals.total_cost_]

\* NSGA2::Individual::evaluate; the axes are scaled by 1, DAILY_TIME_LIMIT
\* and 10, so that the time penalty and the -0.1 stay whole
NSGA2_evaluate(ind) ==
    LET r == calculateTimeAndCosts(ind)
        empty == ind.chromosome = <<>>
        violation == r.total_time_ - DAILY_TIME_LIMIT
        time_penalty == IF r.total_time_ > DAILY_TIME_LIMIT
                        THEN violation * (DAILY_TIME_LIMIT + violation) ELSE 0
    IN IF ~r.is_valid_ \/ empty
       THEN [penalized |-> TRUE,
             objectives_ |->
                 << Min(IF empty THEN Len(catalog.attractions) * 200
                        ELSE Len(catalog.attractions) * 150, 10000),
                    Min(IF empty THEN DAILY_TIME_LIMIT * 2
                        ELSE (DAILY_TIME_LIMIT * 3) \div 2, DAILY_TIME_LIMIT * 2)
                        * DAILY_TIME_LIMIT,
                    -1 >>]
       ELSE [penalized |-> FALSE,
             objectives_ |-> << r.total_cost_,
                                r.total_time_ * DAILY_TIME_LIMIT + time_penalty,
                                -10 * Len(ind.chromosome) >>]

\* the chromosomes, with the modes of their segments
Individuals ==
    UNION {[chromosome : [1..n -> AttractionIds],
            transport_modes : [1..(IF n = 0 THEN 0 ELSE n - 1) -> TransportMode]] :
               n \in 0..MaxGenes}

EvaluateFrame ==
    UNCHANGED <<catalog, attractions_, transport_modes_, time_info_, p_approx_,
                exploration_state_, iteration, iterations_no_improvement, elapsed, pc>>

\* an individual joins the population that is to be evaluated
createIndividual(ind) ==
    /\ output = <<>>
    /\ Len(input) < MaxEvaluated
    /\ input' = Append(input, ind)
    /\ last_op' = [name |-> "Individual", done |-> TRUE]
    /\ UNCHANGED output
    /\ EvaluateFrame

\* NSGA2Base::evaluatePopulation
call_NSGA2Base_evaluatePopulation ==
    /\ output = <<>>
    /\ input # <<>>
    /\ output' = [i \in 1..Len(input) |-> NSGA2Base_evaluate(input[i])]
    /\ last_op' = [name |-> "NSGA2Base::evaluatePopulation", done |-> TRUE]
    /\ UNCHANGED input
    /\ EvaluateFrame

\* NSGA2::evaluatePopulation
call_NSGA2_evaluatePopulation ==
    /\ output = <<>>
    /\ input # <<>>
    /\ output' = [i \in 1..Len(input) |-> NSGA2_evaluate(input[i])]
    /\ last_op' = [name |-> "NSGA2::evaluatePopulation", done |-> TRUE]
    /\ UNCHANGED input
    /\ EvaluateFrame

InitEvaluate ==
    /\ catalog \in {Catalogs[1], CostlyCatalog}
    /\ attractions_ = <<>>
    /\ transport_modes_ = <<>>
    /\ time_info_ = <<>>
    /\ last_op = [name |-> "NSGA2", done |-> TRUE]
    /\ p_approx_ = <<>>
    /\ input = <<>>
    /\ output = <<>>
    /\ exploration_state_ = <<>>
    /\ iteration = 0
    /\ iterations_no_improvement = 0
    /\ elapsed = 0
    /\ pc = "start"

NextEvaluate ==
    \/ \E ind \in Individuals : createIndividual(ind)
    \/ call_NSGA2Base_evaluatePopulation
    \/ call_NSGA2_evaluatePopulation

SpecEvaluate == InitEvaluate /\ [][NextEvaluate]_vars

----------------------------------------------------------------------------
(* NSGA2Base: the individuals and the genetic operators.  An individual is *)
(* a record of its chromosome_, transport_modes_, objectives_, rank_ and   *)
(* crowding_distance_; a gene is a position of the catalog (1-based), and  *)
(* attractions_.size() is the length of the catalog loaded.                *)

\* the catalog of the first n attractions of catalog c
CatalogOf(c, n) == [c EXCEPT !.attractions = SubSeq(c.attractions, 1, n)]

\* "gene >= 0 && gene < attractions_.size()"
ValidGene(gene) == gene \in 1..Len(catalog.attractions)

\* NSGA2Base::Individual::Individual
NSGA2Base_Individual(attraction_indices) ==
    [chromosome |-> attraction_indices,
     transport_modes |-> IF Len(attraction_indices) > 1
                         THEN [i \in 1..(Len(attraction_indices) - 1) |-> CAR]
                         ELSE <<>>,
     objectives_ |-> <<>>,
     rank_ |-> 0,
     crowding_distance_ |-> Dist(FALSE, 0)]

\* NSGA2Base::Individual::determineTransportModes
determineTransportModes(ind) ==
    IF Len(ind.chromosome) <= 1 THEN ind
    ELSE [ind EXCEPT !.transport_modes =
            [i \in 1..(Len(ind.chromosome) - 1) |->
                LET from_idx == ind.chromosome[i]
                    to_idx == ind.chromosome[i + 1]
                IN IF ValidGene(from_idx) /\ ValidGene(to_idx)
                   THEN IF getTravelTime(from_idx, to_idx, WALK) <= WALK_TIME_PREFERENCE
                        THEN WALK ELSE CAR
                   ELSE CAR]]

\* the values chrom_size can take for individual i (0-based) of
\* initializePopulation.  A uniform_int_distribution built with a lower
\* bound above its upper bound has undefined behaviour: any size comes out,
\* and the sizes from attractions_.size() on leave the chromosome whole.
ChromSizes(i, population_size) ==
    LET n == Len(catalog.attractions)
        range(lo, hi) == IF lo <= hi THEN lo..hi ELSE 0..n
    IN IF i < population_size \div 3 THEN {Min(8, n)}
       ELSE IF i < (population_size * 2) \div 3
       THEN range(Min(3, n \div 2), Min(6, n))
       ELSE range(1, Min(4, n \div 2))

\* the individuals initializePopulation can create at position i, before
\* they are evaluated
InitialIndividuals(i, population_size) ==
    LET n == Len(catalog.attractions)
    IN {determineTransportModes(NSGA2Base_Individual(
            [k \in 1..Min(chrom_size, n) |-> chrom[k]])) :
          chrom \in Permutations(1..n), chrom_size \in ChromSizes(i, population_size)}

\* evaluatePopulation on one individual
Evaluated(ind) == [ind EXCEPT !.objectives_ = NSGA2Base_evaluate(ind).objectives_]

\* NSGA2Base::initializePopulation from individual i on: the populations
\* it can leave in population_
RECURSIVE initializePopulation(_, _)
initializePopulation(i, population_size) ==
    IF i >= population_size THEN {<<>>}
    ELSE {<<Evaluated(ind)>> \o rest :
            ind \in InitialIndividuals(i, population_size),
            rest \in initializePopulation(i + 1, population_size)}

\* one of the loops of crossover that copy genes not yet included, while
\* the child is shorter than child_size; skip holds the positions left out
RECURSIVE FillLoop(_, _, _, _, _)
FillLoop(child_chrom, genes, i, skip, child_size) ==
    IF i > Len(genes) \/ Len(child_chrom) >= child_size THEN child_chrom
    ELSE FillLoop(IF i \notin skip /\ ValidGene(genes[i])
                     /\ genes[i] \notin Range(child_chrom)
                  THEN Append(child_chrom, genes[i]) ELSE child_chrom,
                  genes, i + 1, skip, child_size)

\* the child chromosomes of crossover for the sizes and points drawn
ChildChromosomes(p1_chrom, p2_chrom, child_size, cx_point1, cx_point2) ==
    LET segment == SelectSeq(SubSeq(p1_chrom, cx_point1, cx_point2), ValidGene)
        from_p2 == FillLoop(segment, p2_chrom, 1, {}, child_size)
        from_p1 == FillLoop(from_p2, p1_chrom, 1, cx_point1..cx_point2, child_size)
        available == (1..Len(catalog.attractions)) \ Range(from_p1)
        missing == Min(child_size - Len(from_p1), Cardinality(available))
    IN IF Len(from_p1) < child_size /\ Len(from_p1) < Len(catalog.attractions)
       THEN {from_p1 \o extra :
               extra \in {q \in [1..missing -> available] :
                             \A a, b \in 1..missing : a # b => q[a] # q[b]}}
       ELSE {from_p1}

\* NSGA2Base::crossover: the children it can return
crossover(parent1, parent2) ==
    LET p1_chrom == parent1.chromosome
        p2_chrom == parent2.chromosome
        min_size == Min(Len(p1_chrom), Len(p2_chrom))
        max_size == Min(8, Max(Len(p1_chrom), Len(p2_chrom)))
    IN IF p1_chrom = <<>> \/ p2_chrom = <<>>
       THEN {NSGA2Base_Individual(IF p1_chrom = <<>> THEN p2_chrom ELSE p1_chrom)}
       ELSE UNION {{determineTransportModes(NSGA2Base_Individual(child_chrom)) :
                       child_chrom \in ChildChromosomes(p1_chrom, p2_chrom, child_size,
                                                        cx[1], cx[2])} :
                   child_size \in min_size..max_size,
                   \* the two points drawn, after the swap that orders them
                   cx \in {pt \in (1..Len(p1_chrom)) \X (1..Len(p1_chrom)) :
                              pt[1] <= pt[2]}}

\* the chromosomes the three mutation types can leave
MutatedChromosomes(chrom) ==
    LET n == Len(catalog.attractions)
        positions == 1..Len(chrom)
        swapped == UNION {{[chrom EXCEPT ![pos1] = chrom[pos2], ![pos2] = chrom[pos1]] :
                              pos2 \in positions \ {pos1}} : pos1 \in positions}
        moved == {IF from_pos = to_pos THEN chrom
                  ELSE InsertAt(Erase(chrom, from_pos),
                                IF to_pos > from_pos THEN to_pos - 1 ELSE to_pos,
                                chrom[from_pos]) :
                     from_pos \in positions, to_pos \in positions}
        available == {g \in 1..n : g \notin Range(chrom)}
        added == IF available = {} THEN {chrom}
                 ELSE {InsertAt(chrom, pos, new_gene) :
                          new_gene \in available, pos \in 1..(Len(chrom) + 1)}
        removed == {Erase(chrom, pos) : pos \in positions}
    IN swapped
       \cup moved
       \cup (IF Len(chrom) < Min(8, n) THEN added ELSE {})
       \cup removed

\* NSGA2Base::mutate: the individuals it can leave
mutate(individual) ==
    IF Len(individual.chromosome) < 2 THEN {individual}
    ELSE {determineTransportModes([individual EXCEPT !.chromosome = chrom]) :
             chrom \in MutatedChromosomes(individual.chromosome)}

\* NSGA2Base::tournamentSelection for the two positions drawn
tournamentSelection(pop, ind1, ind2) ==
    IF pop[ind1].rank_ < pop[ind2].rank_ THEN ind1
    ELSE IF pop[ind2].rank_ < pop[ind1].rank_ THEN ind2
    ELSE IF DistGreater(pop[ind1].crowding_distance_, pop[ind2].crowding_distance_)
    THEN ind1 ELSE ind2

----------------------------------------------------------------------------
(* The genetic operators called on their own.  input holds the individual  *)
(* under operation, output the population initializePopulation left.       *)

\* the chromosomes of one to min(8, |A|) valid genes, none repeated
WellFormedChromosomes ==
    UNION {{q \in [1..len -> 1..Len(catalog.attractions)] :
               \A a, b \in 1..len : a # b => q[a] # q[b]} :
           len \in 1..Min(8, Len(catalog.attractions))}

GeneticFrame ==
    UNCHANGED <<catalog, attractions_, transport_modes_, time_info_, p_approx_,
                exploration_state_, iteration, iterations_no_improvement, elapsed, pc>>

\* an individual is constructed from a chromosome; the operators work on
\* one individual as long as no population has been initialized
call_Individual ==
    /\ output = <<>>
    /\ \E chrom \in WellFormedChromosomes : input' = NSGA2Base_Individual(chrom)
    /\ last_op' = [name |-> "Individual", done |-> TRUE]
    /\ UNCHANGED output
    /\ GeneticFrame

call_initializePopulation ==
    /\ output = <<>>
    /\ input = <<>>
    /\ \E population_size \in 1..MaxPopulation :
           output' \in initializePopulation(0, population_size)
    /\ last_op' = [name |-> "initializePopulation", done |-> TRUE]
    /\ UNCHANGED input
    /\ GeneticFrame

call_crossover ==
    /\ output = <<>>
    /\ \E p1 \in WellFormedChromosomes, p2 \in WellFormedChromosomes :
           /\ input' \in crossover(determineTransportModes(NSGA2Base_Individual(p1)),
                                   determineTransportModes(NSGA2Base_Individual(p2)))
           /\ last_op' = [name |-> "crossover", done |-> TRUE,
                          min_size |-> Min(Len(p1), Len(p2)),
                          max_size |-> Max(Len(p1), Len(p2))]
    /\ UNCHANGED output
    /\ GeneticFrame

call_mutate ==
    /\ output = <<>>
    /\ input # <<>>
    /\ input' \in mutate(input)
    /\ last_op' = [name |-> "mutate", done |-> input' # input]
    /\ UNCHANGED output
    /\ GeneticFrame

InitGenetic ==
    /\ catalog \in {CatalogOf(Catalogs[1], n) : n \in 1..MaxAttractions}
    /\ attractions_ = <<>>
    /\ transport_modes_ = <<>>
    /\ time_info_ = <<>>
    /\ last_op = [name |-> "NSGA2Base", done |-> TRUE]
    /\ p_approx_ = <<>>
    /\ input = <<>>
    /\ output = <<>>
    /\ exploration_state_ = <<>>
    /\ iteration = 0
    /\ iterations_no_improvement = 0
    /\ elapsed = 0
    /\ pc = "start"

NextGenetic ==
    \/ call_Individual
    \/ call_initializePopulation
    \/ call_crossover
    \/ call_mutate

SpecGenetic == InitGenetic /\ [][NextGenetic]_vars

----------------------------------------------------------------------------
(* NSGA2Base::run.  input holds params_, output holds population_ and the  *)
(* offspring that createOffspring is building, iteration is gen.  A step   *)
(* is the initialization, one pass of the while loop of createOffspring,   *)
(* or the rest of the body of the generation loop.                         *)

ObjectivesOf(pop) == [i \in 1..Len(pop) |-> pop[i].objectives_]

\* the individuals of pop with the ranks fastNonDominatedSort(pop) sets
Ranked(pop) ==
    LET fronts == NSGA2Base_fastNonDominatedSort(ObjectivesOf(pop))
    IN [p \in 1..Len(pop) |->
          IF \E i \in 1..Len(fronts) : p \in Range(fronts[i])
          THEN [pop[p] EXCEPT !.rank_ =
                   (CHOOSE i \in 1..Len(fronts) : p \in Range(fronts[i])) - 1]
          ELSE pop[p]]

\* NSGA2Base::selectNextGeneration(parents, offspring): the populations it
\* can return, each individual with the rank and the crowding distance the
\* call left in it
NextGenerations(parents, offspring, population_size) ==
    LET combined == Ranked(parents \o offspring)
        fronts == NSGA2Base_fastNonDominatedSort(ObjectivesOf(combined))
    IN {[k \in 1..Len(s.next_gen) |->
            [combined[s.next_gen[k]] EXCEPT !.crowding_distance_ = s.d[s.next_gen[k]]]] :
          s \in selectNextGeneration(fronts, ObjectivesOf(combined),
                                     population_size, TRUE)}

RunFrame ==
    UNCHANGED <<catalog, attractions_, transport_modes_, time_info_, p_approx_, input,
                exploration_state_, iterations_no_improvement, elapsed>>

\* "initializePopulation();" at the head of run()
run_initializePopulation ==
    /\ pc = "start"
    /\ \E population_ \in initializePopulation(0, input.population_size) :
           output' = [population_ |-> population_, offspring |-> <<>>]
    /\ pc' = "createOffspring"
    /\ last_op' = [name |-> "initializePopulation", done |-> TRUE]
    /\ UNCHANGED iteration
    /\ RunFrame

\* one pass of the while loop of createOffspring: two tournaments, then the
\* pass is skipped if both chose the same individual, or a child is made by
\* crossover or by copy, mutated or not, and appended.  last_op keeps the
\* positions the tournaments compared.
createOffspring ==
    /\ pc = "createOffspring"
    /\ Len(output.offspring) < Len(output.population_)
    /\ LET parents == output.population_
       IN \E a, b, c, d \in 1..Len(parents) :
            LET parent1 == tournamentSelection(parents, a, b)
                parent2 == tournamentSelection(parents, c, d)
            IN /\ last_op' = [name |-> "tournamentSelection", done |-> TRUE,
                              compared |-> {a, b, c, d}]
               /\ IF parent1 = parent2 /\ Len(parents) > 1
                  THEN UNCHANGED output
                  ELSE \E child \in crossover(parents[parent1], parents[parent2])
                                    \cup {NSGA2Base_Individual(parents[parent1].chromosome)} :
                         \E mutated \in {child} \cup mutate(child) :
                            output' = [output EXCEPT !.offspring = Append(@, mutated)]
    /\ UNCHANGED <<iteration, pc>>
    /\ RunFrame

\* the rest of the body of the generation loop: the offspring is evaluated,
\* the next generation selected and sorted into fronts
nextGeneration ==
    /\ pc = "createOffspring"
    /\ Len(output.offspring) = Len(output.population_)
    /\ LET offspring == [i \in 1..Len(output.offspring) |->
                            Evaluated(output.offspring[i])]
       IN \E next_gen \in NextGenerations(output.population_, offspring,
                                          input.population_size) :
              output' = [population_ |-> Ranked(next_gen), offspring |-> <<>>]
    /\ iteration' = iteration + 1
    /\ pc' = IF iteration + 1 < input.max_generations THEN "createOffspring" ELSE "done"
    /\ last_op' = [name |-> "selectNextGeneration", done |-> TRUE]
    /\ RunFrame

InitNSGA2Base ==
    /\ catalog \in {CatalogOf(c, n) : c \in {Catalogs[1], CostlyCatalog},
                                      n \in 1..MaxRunAttractions}
    /\ attractions_ = <<>>
    /\ transport_modes_ = <<>>
    /\ time_info_ = <<>>
    /\ last_op = [name |-> "NSGA2Base", done |-> TRUE]
    /\ p_approx_ = <<>>
    /\ input \in [population_size : 1..MaxPopulationSize,
                  max_generations : 1..MaxGenerations]
    /\ output = <<>>
    /\ exploration_state_ = <<>>
    /\ iteration = 0
    /\ iterations_no_improvement = 0
    /\ elapsed = 0
    /\ pc = "start"

NextNSGA2Base ==
    \/ run_initializePopulation
    \/ createOffspring
    \/ nextGeneration

SpecNSGA2Base == InitNSGA2Base /\ [][NextNSGA2Base]_vars

----------------------------------------------------------------------------
(* Metrics::applyEpsilonDominance.  input holds the solutions and the      *)
(* epsilon vector; last_op keeps the positions the call marked dominated.  *)
(* The time objective of the model is the time of the source multiplied by *)
(* max_time, so the epsilon of the time axis is multiplied by it as well.  *)

\* "k < epsilon.size() ? epsilon[k] : 5.0" for objective k (1 cost, 2 time)
EpsilonAt(epsilon, k) ==
    (IF k <= Len(epsilon) THEN epsilon[k] ELSE 5) * (IF k = 2 THEN max_time ELSE 1)

\* mutant of same_structure: the counts are not looked at
same_structure_Always(obj_i, obj_j) == TRUE

\* the attraction counts and the neighborhood counts differ by less than 0.5
same_structure(obj_i, obj_j) ==
    /\ Abs(obj_i[3] - obj_j[3]) < 1
    /\ Abs(obj_i[4] - obj_j[4]) < 1

\* i_dominates_j after the loop over cost and time
EpsilonDominates(obj_i, obj_j, epsilon) ==
    \A k \in 1..2 : ~(obj_i[k] > obj_j[k] + EpsilonAt(epsilon, k))

\* the inner loop of applyEpsilonDominance for solution i, from j on
RECURSIVE EpsilonInner(_, _, _, _, _)
EpsilonInner(solutions, epsilon, i, j, dominated) ==
    IF j > Len(solutions) THEN dominated
    ELSE IF j \in dominated THEN EpsilonInner(solutions, epsilon, i, j + 1, dominated)
    ELSE LET obj_i == MOVNSSolution_getObjectives(solutions[i])
             obj_j == MOVNSSolution_getObjectives(solutions[j])
         IN IF ~same_structure(obj_i, obj_j)
            THEN EpsilonInner(solutions, epsilon, i, j + 1, dominated)
            ELSE IF EpsilonDominates(obj_i, obj_j, epsilon)
            THEN EpsilonInner(solutions, epsilon, i, j + 1, dominated \cup {j})
            ELSE IF EpsilonDominates(obj_j, obj_i, epsilon)
            THEN dominated \cup {i}
            ELSE EpsilonInner(solutions, epsilon, i, j + 1, dominated)

\* the outer loop of applyEpsilonDominance from i on: the positions marked
RECURSIVE EpsilonOuter(_, _, _, _)
EpsilonOuter(solutions, epsilon, i, dominated) ==
    IF i > Len(solutions) THEN dominated
    ELSE EpsilonOuter(solutions, epsilon, i + 1,
                      IF i \in dominated THEN dominated
                      ELSE EpsilonInner(solutions, epsilon, i, i + 1, dominated))

\* the members of s at the positions outside dropped, in their order
RECURSIVE Undominated(_, _, _)
Undominated(s, dropped, i) ==
    IF i > Len(s) THEN <<>>
    ELSE (IF i \in dropped THEN <<>> ELSE <<s[i]>>) \o Undominated(s, dropped, i + 1)

\* Metrics::applyEpsilonDominance
applyEpsilonDominance(solutions, epsilon) ==
    IF solutions = <<>> THEN solutions
    ELSE Undominated(solutions, EpsilonOuter(solutions, epsilon, 1, {}), 1)

\* the epsilon vectors handed over: the one of exportToCSV (its entries for
\* the two counts are never read), a short one, the empty one, a wide one
Epsilons == {<<10, 30>>, <<10>>, <<>>, <<1000, 1000>>}

EpsilonFrame ==
    UNCHANGED <<catalog, attractions_, transport_modes_, time_info_, p_approx_,
                exploration_state_, iteration, iterations_no_improvement, elapsed, pc>>

\* one more solution joins the vector that is to be reduced
addSolution(sequence) ==
    /\ last_op.name # "applyEpsilonDominance"
    /\ Len(input.solutions) < MaxSolutions
    /\ input' = [input EXCEPT !.solutions = Append(@, RebuiltDefault(sequence))]
    /\ last_op' = [name |-> "addSolution", done |-> TRUE, dominated |-> {}]
    /\ UNCHANGED output
    /\ EpsilonFrame

call_applyEpsilonDominance ==
    /\ last_op.name # "applyEpsilonDominance"
    /\ output' = applyEpsilonDominance(input.solutions, input.epsilon)
    /\ last_op' = [name |-> "applyEpsilonDominance", done |-> TRUE,
                   dominated |-> EpsilonOuter(input.solutions, input.epsilon, 1, {})]
    /\ UNCHANGED input
    /\ EpsilonFrame

InitEpsilon ==
    /\ catalog = Catalogs[2]
    /\ attractions_ = <<>>
    /\ transport_modes_ = <<>>
    /\ time_info_ = <<>>
    /\ last_op = [name |-> "Metrics", done |-> TRUE, dominated |-> {}]
    /\ p_approx_ = <<>>
    /\ input \in [solutions : {<<>>}, epsilon : Epsilons]
    /\ output = <<>>
    /\ exploration_state_ = <<>>
    /\ iteration = 0
    /\ iterations_no_improvement = 0
    /\ elapsed = 0
    /\ pc = "start"

NextEpsilon ==
    \/ \E sequence \in UpdateSequences : addSolution(sequence)
    \/ call_applyEpsilonDominance

SpecEpsilon == InitEpsilon /\ [][NextEpsilon]_vars

----------------------------------------------------------------------------
(* HypervolumeCalculator.  A point is the objective vector of a            *)
(* tourist::Solution: cost, time, -attractions.  Indices k, i and n are    *)
(* the 0-based values of the source.  std::sort leaves the order of equal  *)
(* keys open, so a volume is computed for every order it may leave and the *)
(* operators return the set of volumes the call can return.                *)

\* HypervolumeCalculator::Point::dominates on the objectives k, k + 1, ...
Point_dominates(objectives, other, k) ==
    /\ \A i \in k..(Len(objectives) - 1) :
         IF i = 2 THEN objectives[i + 1] >= other[i + 1]
         ELSE objectives[i + 1] <= other[i + 1]
    /\ \E i \in k..(Len(objectives) - 1) :
         IF i = 2 THEN objectives[i + 1] > other[i + 1]
         ELSE objectives[i + 1] < other[i + 1]

RECURSIVE FilterLoop(_, _, _, _)
FilterLoop(points, k, i, non_dominated) ==
    IF i > Len(points) THEN non_dominated
    ELSE IF \E j \in 1..Len(non_dominated) :
                Point_dominates(non_dominated[j], points[i], k)
    THEN FilterLoop(points, k, i + 1, non_dominated)
    ELSE FilterLoop(points, k, i + 1,
             Append(SelectSeq(non_dominated,
                        LAMBDA other : ~Point_dominates(points[i], other, k)),
                    points[i]))

\* HypervolumeCalculator::filterDominated
filterDominated(points, k) ==
    IF Len(points) < 2 THEN points ELSE FilterLoop(points, k, 1, <<>>)

\* the orders std::sort may leave the points in; before holds the pairs of
\* positions <<a, b>> for which the comparator answers true
SortedPoints(points, before) ==
    {[i \in 1..Len(points) |-> points[order[i]]] :
        order \in SortedOrders([i \in 1..Len(points) |-> i], before)}

\* the sweep of calculate2D over the sorted points, from the i-th on
RECURSIVE Sweep2D(_, _, _, _, _, _)
Sweep2D(sorted_points, reference_point, isMaximization, i, prev_x, best_y) ==
    IF i > Len(sorted_points) THEN 0
    ELSE LET x == sorted_points[i][1]
             y == sorted_points[i][2]
             skipped == IF ~isMaximization
                        THEN x >= reference_point[1] \/ y >= reference_point[2]
                        ELSE x >= reference_point[1] \/ y <= reference_point[2]
             is_better == IF ~isMaximization THEN y < best_y ELSE y > best_y
             height == IF ~isMaximization THEN reference_point[2] - y
                       ELSE y - reference_point[2]
         IN IF ~skipped /\ is_better
            THEN (prev_x - x) * height
                 + Sweep2D(sorted_points, reference_point, isMaximization, i + 1, x, y)
            ELSE Sweep2D(sorted_points, reference_point, isMaximization, i + 1,
                         prev_x, best_y)

\* HypervolumeCalculator::calculate2D: it sorts by objectives[0] and reads
\* objectives[0] and objectives[1] of each point
calculate2D(points, reference_point, isMaximization) ==
    IF points = <<>> THEN {0}
    ELSE {Sweep2D(sorted_points, reference_point, isMaximization, 1,
                  reference_point[1], reference_point[2]) :
            sorted_points \in SortedPoints(points,
                {<<a, b>> \in (1..Len(points)) \X (1..Len(points)) :
                    points[a][1] < points[b][1]})}

RECURSIVE hso(_, _, _, _)
RECURSIVE Slices(_, _, _, _, _, _)

\* the slicing loop of hso over the sorted points, from the i-th on
Slices(points, k, n, reference_point, i, prev_slice) ==
    IF i > Len(points) THEN {0}
    ELSE LET current_slice == points[i][k + 1]
             skipped == IF k = 2 THEN current_slice <= reference_point[k + 1]
                        ELSE current_slice >= reference_point[k + 1]
             slice_height == IF k = 2 THEN current_slice - prev_slice
                             ELSE prev_slice - current_slice
         IN IF skipped
            THEN Slices(points, k, n, reference_point, i + 1, prev_slice)
            ELSE {slice_height * sub + rest :
                    sub \in hso(SubSeq(points, i, Len(points)), k + 1, n,
                                reference_point),
                    rest \in Slices(points, k, n, reference_point, i + 1,
                                    current_slice)}

\* HypervolumeCalculator::hso: the volumes it can return
hso(points, k, n, reference_point) ==
    LET filtered == filterDominated(points, k)
    IN IF k = n - 2
       THEN calculate2D(filtered, <<reference_point[n - 1], reference_point[n]>>,
                        n - 2 = 2 \/ n - 1 = 2)
       ELSE IF filtered = <<>> THEN {0}
       ELSE UNION {Slices(sorted, k, n, reference_point, 1, reference_point[k + 1]) :
                     sorted \in SortedPoints(filtered,
                         {<<a, b>> \in (1..Len(filtered)) \X (1..Len(filtered)) :
                             IF k = 2 THEN filtered[a][k + 1] > filtered[b][k + 1]
                             ELSE filtered[a][k + 1] < filtered[b][k + 1]})}

\* the reference calculate hands to hso: the caller's one when its validity
\* test passes, and otherwise one rebuilt from the points with the margin
\* max(0.1 * |value|, 1.0), which is whole for the values used here
adjusted_reference(points, reference_point) ==
    LET point_dominates_reference(p) ==
            \A i \in 0..(Len(reference_point) - 1) :
                IF i = 2 THEN points[p][i + 1] > reference_point[i + 1]
                ELSE points[p][i + 1] < reference_point[i + 1]
        reference_is_valid ==
            ~\E p \in 1..Len(points) : point_dominates_reference(p)
        margin(value) == Max(Abs(value) \div 10, 1)
    IN IF reference_is_valid THEN reference_point
       ELSE [j \in 1..Len(reference_point) |->
               LET values == {points[p][j] : p \in 1..Len(points)}
                   max_value == CHOOSE v \in values : \A w \in values : v >= w
                   min_value == CHOOSE v \in values : \A w \in values : v <= w
               IN IF j - 1 = 2 THEN max_value - margin(max_value)
                  ELSE min_value + margin(min_value)]

\* HypervolumeCalculator::calculate for solutions and a reference of the
\* same dimension: the volumes it can return
calculate(solutions, reference_point) ==
    IF solutions = <<>> THEN {0}
    ELSE hso(solutions, 0, Len(reference_point),
             adjusted_reference(solutions, reference_point))

\* calculate(P, r): the volume returned and the reference handed to hso
call_calculate ==
    /\ output = <<>>
    /\ \E volume \in calculate(input.solutions, input.reference_point) :
           output' = [op |-> "calculate", volume |-> volume,
                      reference |-> IF input.solutions = <<>> THEN <<>>
                                    ELSE adjusted_reference(input.solutions,
                                                            input.reference_point)]
    /\ UNCHANGED <<run_state, catalog, attractions_, transport_modes_, time_info_, last_op,
                   p_approx_, input>>

\* calculate(P, r) and then calculate(P with q added, r)
call_calculate_extended ==
    /\ output = <<>>
    /\ \E volume \in calculate(input.solutions, input.reference_point),
          extended \in calculate(Append(input.solutions, input.q),
                                 input.reference_point) :
           output' = [op |-> "calculate twice", volume |-> volume,
                      extended |-> extended]
    /\ UNCHANGED <<run_state, catalog, attractions_, transport_modes_, time_info_, last_op,
                   p_approx_, input>>

\* the points are objective vectors of tourist::Solution (cost, time,
\* -attractions); the reference is any vector of three coordinates
InitHV ==
    LET points == {<<c, t, -k>> : c \in 0..MaxCoordinate, t \in 0..MaxCoordinate,
                                  k \in 0..MaxCoordinate}
        references == {<<a, b, c>> : a \in 0..(MaxCoordinate + 1),
                                     b \in 0..(MaxCoordinate + 1),
                                     c \in (-MaxCoordinate)..1}
    IN /\ catalog = Catalogs[1]
       /\ attractions_ = <<>>
       /\ transport_modes_ = <<>>
       /\ time_info_ = <<>>
       /\ last_op = [name |-> "init", done |-> TRUE]
       /\ p_approx_ = <<>>
       /\ input \in [solutions : UNION {[1..len -> points] : len \in 0..MaxPoints},
                     q : points,
                     reference_point : references]
       /\ output = <<>>
       /\ exploration_state_ = <<>>
       /\ iteration = 0
       /\ iterations_no_improvement = 0
       /\ elapsed = 0
       /\ pc = "start"

NextHV ==
    \/ call_calculate
    \/ call_calculate_extended

SpecHV == InitHV /\ [][NextHV]_vars

----------------------------------------------------------------------------
(* C1: after any sequence of add / remove / swap / insert from the empty   *)
(* route, every stop i has departure_i - arrival_i = visit_i, and every    *)
(* consecutive pair has arrival_{i+1} >= departure_i + travel_time of the  *)
(* mode stored for segment i.                                              *)

TimeInfoConsistent ==
    /\ Len(time_info_) = Len(attractions_)
    /\ \A i \in 1..Len(attractions_) :
           time_info_[i].departure_time - time_info_[i].arrival_time
               = getVisitTime(attractions_[i])
    /\ \A i \in 1..(Len(attractions_) - 1) :
           /\ i <= Len(transport_modes_)
           /\ time_info_[i + 1].arrival_time >=
                  time_info_[i].departure_time
                    + getTravelTime(attractions_[i], attractions_[i + 1],
                                    transport_modes_[i])

\* a three-stop route reached by a swap, with a wait at a later stop
TimeInfoWitness ==
    /\ Len(attractions_) = 3
    /\ last_op = [name |-> "swapAttractions", done |-> TRUE]
    /\ \E i \in 2..3 : time_info_[i].wait_time > 0

----------------------------------------------------------------------------
(* C2: in every state of one MOVNS run after initialization, no member of  *)
(* P_approx Pareto-dominates another member.                               *)

MutuallyNonDominated ==
    \A i, j \in 1..Len(p_approx_) :
        i # j => ~MOVNSSolution_dominates(p_approx_[i], p_approx_[j])

\* an update has just added a member and the set holds members with
\* different objective vectors
ApproxSetWitness ==
    /\ pc = "updated"
    /\ last_op.done
    /\ Len(p_approx_) >= 2
    /\ \E i, j \in 1..Len(p_approx_) :
           MOVNSSolution_getObjectives(p_approx_[i])
               # MOVNSSolution_getObjectives(p_approx_[j])

----------------------------------------------------------------------------
\* Pareto dominance as the specification defines it: u no worse than v on
\* every objective and strictly better on at least one
ParetoDominates(u, v) ==
    /\ \A i \in 1..Len(u) : u[i] <= v[i]
    /\ \E i \in 1..Len(u) : u[i] < v[i]

(* C3: MOVNSSolution::dominates and NSGA2Base::Individual::dominates       *)
(* return true exactly when u is no worse than v on every objective and    *)
(* strictly better on one; so u never dominates itself and u, v never      *)
(* dominate each other.                                                    *)

DominatesIsPareto ==
    (output # <<>> /\ output.op \in {"MOVNSSolution::dominates",
                                     "NSGA2Base::Individual::dominates"}) =>
        /\ output.forward = Returned(ParetoDominates(input.u, input.v))
        /\ output.backward = Returned(ParetoDominates(input.v, input.u))
        /\ ~(output.forward = "true" /\ output.backward = "true")
        /\ (input.u = input.v => output.forward = "false")

\* a comparison that answered true one way, on vectors that tie on an axis
DominatesWitness ==
    /\ output # <<>>
    /\ output.op = "NSGA2Base::Individual::dominates"
    /\ output.forward = "true"
    /\ \E i \in 1..3 : input.u[i] = input.v[i]

----------------------------------------------------------------------------
(* C4: for tourist::Solution objects with objective vectors of equal       *)
(* length, a.dominates(a) is false, and a.dominates(b) and b.dominates(a)  *)
(* (that is, a < b and a > b) are never both true.                         *)

SolutionDominatesStrict ==
    (output # <<>> /\ output.op = "Solution::dominates"
                   /\ Len(input.u) = Len(input.v)) =>
        /\ (input.u = input.v => output.forward = "false")
        /\ ~(output.forward = "true" /\ output.backward = "true")

----------------------------------------------------------------------------
(* C5: a dominance comparison between objective vectors of different       *)
(* lengths ends in an error and never returns true or false, for           *)
(* NSGA2::Individual::dominates, SolutionBase::isDominatedBy (reached      *)
(* through Solution::dominates) and MOVNSSolution::dominates.              *)

ShapeMismatchIsError ==
    (output # <<>> /\ output.op \in {"NSGA2::Individual::dominates",
                                     "Solution::dominates",
                                     "MOVNSSolution::dominates"}
                   /\ Len(input.u) # Len(input.v)) =>
        /\ output.forward = "invalid_argument"
        /\ output.backward = "invalid_argument"

----------------------------------------------------------------------------
(* C6: the fronts returned by fastNonDominatedSort: no individual of F_0   *)
(* is dominated by any individual of the population, and every individual  *)
(* of F_i, i > 0, is dominated by at least one individual of F_{i-1}.      *)

\* dominates() as the individuals of the engine that made the output decide it
EngineDominates(p, q) ==
    IF output.op \in {"NSGA2Base::fastNonDominatedSort",
                      "NSGA2Base::selectNextGeneration"}
    THEN NSGA2Base_dominates(input.pop[p], input.pop[q])
    ELSE NSGA2_dominates(input.pop[p], input.pop[q], output.ranges)

\* C6, with "dominated" read as the relation the engine's individuals
\* implement (raw for NSGA2Base and for NSGA2 without ranges, normalized by
\* the ranges with the 1e-6 threshold for NSGA2 otherwise): front 0 holds
\* no dominated individual and every later front is dominated from the
\* front before it
FrontsByEngineDominance ==
    output # <<>> =>
        /\ Len(output.fronts) >= 1 =>
             \A p \in Range(output.fronts[1]) : \A q \in 1..Len(input.pop) :
                 ~EngineDominates(q, p)
        /\ \A i \in 2..Len(output.fronts) : \A p \in Range(output.fronts[i]) :
             \E q \in Range(output.fronts[i - 1]) : EngineDominates(q, p)

\* NSGA2 has sorted, with ranges, a population into three fronts
FrontsWitness ==
    /\ output # <<>>
    /\ output.op = "NSGA2::fastNonDominatedSort"
    /\ output.ranges # <<>>
    /\ Len(output.fronts) >= 3
    /\ Len(output.fronts[2]) >= 2

\* C6 as stated, with "dominated" read as Pareto dominance of the
\* objective vectors: front 0 holds no Pareto-dominated individual and
\* every later front is Pareto-dominated from the front before it
FrontsByParetoDominance ==
    output # <<>> =>
        /\ Len(output.fronts) >= 1 =>
             \A p \in Range(output.fronts[1]) : \A q \in 1..Len(input.pop) :
                 ~ParetoDominates(input.pop[q], input.pop[p])
        /\ \A i \in 2..Len(output.fronts) : \A p \in Range(output.fronts[i]) :
             \E q \in Range(output.fronts[i - 1]) :
                 ParetoDominates(input.pop[q], input.pop[p])

----------------------------------------------------------------------------
(* C7: selectNextGeneration(P, Q) with |P| = |Q| = N returns exactly N     *)
(* individuals of P and Q: no selected individual has a higher rank than   *)
(* an unselected one, and within the front taken in part no selected       *)
(* individual has a smaller crowding distance than an unselected one.      *)

IsSelection ==
    /\ output # <<>>
    /\ output.op \in {"NSGA2Base::selectNextGeneration", "NSGA2::selectNextGeneration"}

\* C7: N distinct individuals are returned, in rank order, and the
\* front taken in part gives its most isolated individuals
SelectionByRankThenDistance ==
    IsSelection =>
        LET selected == Range(output.next_gen)
            unselected == (1..Len(input.pop)) \ selected
            cd == output.crowding_distance
        IN /\ Len(output.next_gen) = output.population_size
           /\ Cardinality(selected) = output.population_size
           /\ \A s \in selected : \A t \in unselected :
                /\ output.rank[s] <= output.rank[t]
                /\ output.rank[s] = output.rank[t] =>
                     \/ cd[s].infinite
                     \/ ~cd[t].infinite /\ cd[s].scaled >= cd[t].scaled

\* a front of three or more was taken in part and an individual with a
\* finite crowding distance was left out of it
SelectionWitness ==
    /\ IsSelection
    /\ \E i \in 1..Len(output.fronts) :
         /\ Len(output.fronts[i]) >= 3
         /\ \E s \in Range(output.fronts[i]) : s \in Range(output.next_gen)
         /\ \E t \in Range(output.fronts[i]) :
              /\ t \notin Range(output.next_gen)
              /\ ~output.crowding_distance[t].infinite
              /\ output.crowding_distance[t].scaled > 0

----------------------------------------------------------------------------
(* C8: isValid() is false for every route that stores WALK on a segment    *)
(* whose walking time is above 15 minutes, for MOVNSSolution::isValid and  *)
(* for Route::isValid.                                                     *)

\* C8: once isValid() has answered for a route with a stored WALK segment
\* longer than the walking cap, the answer of Route::isValid is false and
\* so is the answer of MOVNSSolution::isValid on the same contents
WalkOverCapIsInvalid ==
    LET long_walk == \E i \in 1..SegmentCount(this) :
                         /\ transport_modes_[i] = WALK
                         /\ getTravelTime(attractions_[i], attractions_[i + 1], WALK)
                                > WALK_TIME_PREFERENCE
    IN (output # <<>> /\ long_walk) => (~output.route /\ ~output.solution)

----------------------------------------------------------------------------
(* C9: for a set holding the single objective vector p and a reference r   *)
(* of the same length, calculate returns the product over the axes i of    *)
(* max(0, r_i - p_i).                                                      *)

\* C9: the volume returned for one point is the volume of the box between
\* the point and the reference, every axis being minimized
SinglePointIsBox ==
    (output # <<>> /\ Len(input.solutions) = 1) =>
        LET p == input.solutions[1]
            r == input.reference_point
        IN output.volume = Max(0, r[1] - p[1]) * Max(0, r[2] - p[2])
                           * Max(0, r[3] - p[3])

----------------------------------------------------------------------------
(* C10: adding a point q that no point of P dominates never lowers         *)
(* calculate(P, r), and adding a point q that some point of P dominates    *)
(* leaves it unchanged (all axes minimized).                               *)

\* C10: the volume of P with q added is at least the volume of P, and is
\* the same when a point of P Pareto-dominates q
HypervolumeMonotone ==
    (output # <<>> /\ output.op = "calculate twice") =>
        IF \E i \in 1..Len(input.solutions) :
               ParetoDominates(input.solutions[i], input.q)
        THEN output.extended = output.volume
        ELSE output.extended >= output.volume

----------------------------------------------------------------------------
(* C11: calculate keeps the caller's reference when every point is         *)
(* strictly smaller than it on every axis, and otherwise replaces each     *)
(* coordinate i by min_i + max(0.1 * |min_i|, 1), min_i being the smallest *)
(* value of axis i over the points.                                        *)

\* C11: the reference handed to hso is the caller's one when all points
\* lie strictly below it on all axes, and the rebuilt one otherwise
ReferenceKeptOrGrown ==
    (output # <<>> /\ output.op = "calculate" /\ input.solutions # <<>>) =>
        LET P == input.solutions
            r == input.reference_point
            least(i) == CHOOSE v \in {P[p][i] : p \in 1..Len(P)} :
                            \A p \in 1..Len(P) : v <= P[p][i]
        IN IF \A p \in 1..Len(P) : \A i \in 1..Len(r) : P[p][i] < r[i]
           THEN output.reference = r
           ELSE output.reference =
                    [i \in 1..Len(r) |->
                        least(i) + (IF Abs(least(i)) \div 10 >= 1
                                    THEN Abs(least(i)) \div 10 ELSE 1)]

----------------------------------------------------------------------------
(* C12: scenario S1.  A (open 0-1439, visit 60, cost 10) and B (open       *)
(* 540-900, visit 30, cost 20) with walk_time(A,B) = 10, car_time(A,B) = 5 *)
(* and car_dist(A,B) = 500 m are the attractions 1 and 2 of catalog 2.     *)
(* The route [A,B] has segment mode WALK, arrival_A = 540, departure_A =   *)
(* 600, arrival_B = 610, departure_B = 640, total_time = 100 and a total   *)
(* cost.                                                                   *)

\* B has just been added after A, no mode being forced on the segment
ScenarioS1Built ==
    /\ catalog = Catalogs[2] /\ attractions_ = <<1, 2>>
    /\ last_op = [name |-> "addAttraction", done |-> TRUE]

\* the route [A, B] of scenario S1 with every value but the total cost
ScenarioS1Times ==
    /\ transport_modes_ = <<WALK>>
    /\ time_info_[1].arrival_time = 540 /\ time_info_[1].departure_time = 600
    /\ time_info_[2].arrival_time = 610 /\ time_info_[2].departure_time = 640
    /\ MOVNSSolution_getTotalTime(this) = 100

\* C12 with the total cost the code computes: the walked segment is free,
\* so the route [A, B] costs the two entrance fees, 30
ScenarioS1WalkIsFree ==
    ScenarioS1Built =>
        (ScenarioS1Times /\ MOVNSSolution_getTotalCost(this) = 30)

\* the route [A, B] of scenario S1 has been built and costs 30
ScenarioS1Witness ==
    ScenarioS1Built /\ MOVNSSolution_getTotalCost(this) = 30

\* C12 as stated: the route [A, B] of scenario S1 has total cost 33
ScenarioS1AsStated ==
    ScenarioS1Built =>
        (ScenarioS1Times /\ MOVNSSolution_getTotalCost(this) = 33)

----------------------------------------------------------------------------
(* C18: after any sequence of addAttraction with the mode left out,        *)
(* insertAttraction, removeAttraction and swapAttractions, every stored    *)
(* mode is the preferred mode of the segment's current endpoints: WALK if  *)
(* the walk takes at most 15 minutes, CAR otherwise.                       *)

ModesArePreferred ==
    /\ Len(transport_modes_) = Max(Len(attractions_) - 1, 0)
    /\ \A i \in 1..Len(transport_modes_) :
           transport_modes_[i] =
               (IF getTravelTime(attractions_[i], attractions_[i + 1], WALK)
                       <= WALK_TIME_PREFERENCE
                THEN WALK ELSE CAR)

----------------------------------------------------------------------------
(* C19: TransportModeChangeNeighborhood on a valid solution x with at      *)
(* least two attractions, segment j picked: if the flipped mode would be   *)
(* WALK with a walk of more than 15 minutes, or the flipped route is       *)
(* invalid, x is returned unchanged; otherwise the returned solution has   *)
(* x's attractions, the opposite mode on segment j and x's modes on every  *)
(* other segment.                                                          *)

FlipsThePickedSegment ==
    (output # <<>> /\ output.op = "TransportModeChange") =>
        LET x == output.x
            j == output.arc_idx + 1
            flipped_mode == IF x.transport_modes_[j] = CAR THEN WALK ELSE CAR
            flipped_modes == [x.transport_modes_ EXCEPT ![j] = flipped_mode]
            flipped == MOVNSSolutionOf(x.attractions_, flipped_modes,
                                       recalculateTimeInfo(x.attractions_, flipped_modes))
            walk_over_cap ==
                /\ flipped_mode = WALK
                /\ getTravelTime(x.attractions_[j], x.attractions_[j + 1], WALK)
                       > WALK_TIME_PREFERENCE
        IN IF walk_over_cap \/ ~MOVNSSolution_isValid(flipped)
           THEN output.neighbor = x
           ELSE /\ output.neighbor.attractions_ = x.attractions_
                /\ output.neighbor.transport_modes_ = flipped_modes

----------------------------------------------------------------------------
(* C20: each of the six neighborhoods, applied to a valid solution x,      *)
(* returns x itself or a solution for which isValid() is true; the result  *)
(* never has zero attractions and never visits an attraction twice.        *)

NeighborIsOriginalOrValid ==
    output # <<>> =>
        /\ \/ /\ output.neighbor.attractions_ = output.x.attractions_
              /\ output.neighbor.transport_modes_ = output.x.transport_modes_
           \/ MOVNSSolution_isValid(output.neighbor)
        /\ output.neighbor.attractions_ # <<>>
        /\ \A i, k \in 1..Len(output.neighbor.attractions_) :
               i # k => output.neighbor.attractions_[i] # output.neighbor.attractions_[k]

\* a neighborhood other than the mode change has returned a solution with
\* another attraction sequence
NeighborWitness ==
    /\ output # <<>>
    /\ output.op # "TransportModeChange"
    /\ output.neighbor.attractions_ # output.x.attractions_

----------------------------------------------------------------------------
(* C13: MOVNS::run eventually leaves its main loop, provided the elapsed   *)
(* wall-clock time keeps growing, and when it has left, iteration >=       *)
(* max_iterations or iterations_no_improvement >=                          *)
(* max_iterations_no_improvement or the elapsed seconds >=                 *)
(* max_time_seconds.                                                       *)

RunLeavesItsLoop ==
    /\ <>(pc = "done")
    /\ [](pc = "done" =>
              \/ iteration >= input.max_iterations
              \/ iterations_no_improvement >= input.max_iterations_no_improvement
              \/ elapsed >= input.max_time_seconds)

\* the loop was left on the time limit alone, after passes that moved no
\* counter
LeftOnTimeLimit ==
    /\ pc = "done"
    /\ iteration = 0
    /\ iterations_no_improvement = 0
    /\ elapsed >= input.max_time_seconds

----------------------------------------------------------------------------
(* C17 *)

\* C17: updateApproximationSet(s) returns false and leaves the
\* approximation set and the exploration-state map as they were if s is
\* invalid or some incumbent dominates s; otherwise it removes exactly the
\* incumbents s dominates, appends s and returns true.
UpdateRejectsOrReplaces ==
    [][last_op'.name = "updateApproximationSet" =>
         LET s == MOVNSSolutionOf(attractions_', transport_modes_', time_info_')
             rejected == \/ ~MOVNSSolution_isValid(s)
                         \/ \E i \in 1..Len(p_approx_) :
                                MOVNSSolution_dominates(p_approx_[i], s)
             survivors == SelectSeq(p_approx_,
                                    LAMBDA e : ~MOVNSSolution_dominates(s, e))
         IN IF rejected
            THEN /\ ~last_op'.done
                 /\ p_approx_' = p_approx_
                 /\ exploration_state_' = exploration_state_
            ELSE /\ last_op'.done
                 /\ p_approx_' = Append(survivors, s)]_vars

\* an invalid solution was handed over while the set had a marked member
UpdateRejectedWitness ==
    /\ last_op.name = "updateApproximationSet"
    /\ ~last_op.done
    /\ ~MOVNSSolution_isValid(this)
    /\ p_approx_ # <<>>
    /\ \E k \in DOMAIN exploration_state_ :
           exploration_state_[k].explored_neighborhoods # {}

----------------------------------------------------------------------------
(* C14 *)

\* the name is in the index map neither trimmed nor trimmed and stripped
\* of its spaces
AbsentFromIndexMap(name) ==
    /\ TrimRight(TrimLeft(name)) \notin DOMAIN catalog.attraction_indices
    /\ SelectSeq(TrimRight(TrimLeft(name)), LAMBDA c : c # " ")
           \notin DOMAIN catalog.attraction_indices

\* C14: a transport-oracle query (getDistance, getTravelTime,
\* getTravelCost, determinePreferredMode) whose from or to name is absent
\* from the matrix index map, even trimmed and stripped of spaces, ends in
\* an error and returns no value.
AbsentNameIsAnError ==
    (/\ output.op \in {"getDistance", "getTravelTime", "getTravelCost",
                       "determinePreferredMode"}
     /\ AbsentFromIndexMap(output.from) \/ AbsentFromIndexMap(output.to))
        => output.result.threw /\ output.result.returned = <<>>

----------------------------------------------------------------------------
(* C15 *)

\* C15: in NSGA-II evaluation the penalty vector of an individual whose
\* route is empty or fails validation is Pareto-dominated by the objective
\* vector of every individual whose route is valid, whatever the catalog;
\* so a penalized individual never dominates a valid one.
PenaltyIsDominated ==
    \A i, j \in 1..Len(output) :
        (output[i].penalized /\ ~output[j].penalized) =>
            /\ ParetoDominates(output[j].objectives_, output[i].objectives_)
            /\ ~ParetoDominates(output[i].objectives_, output[j].objectives_)

----------------------------------------------------------------------------
(* C16 *)

\* one objective as the specification describes it: an objective whose
\* range over the front is zero leaves every distance as it was
ClaimedRound(d, sorted, pop, obj, D) ==
    IF pop[sorted[Len(sorted)]][obj] = pop[sorted[1]][obj] THEN d
    ELSE CrowdRound(d, sorted, pop, obj, D)

\* the distances the described rule can leave, from objective obj on
RECURSIVE ClaimedFrom(_, _, _, _, _)
ClaimedFrom(ds, front, pop, obj, D) ==
    IF obj > Len(pop[1]) THEN ds
    ELSE ClaimedFrom(
           UNION {{ClaimedRound(d, sorted, pop, obj, D) :
                      sorted \in SortedOrders(front,
                                     {<<a, b>> \in Range(front) \X Range(front) :
                                         pop[a][obj] < pop[b][obj]})} :
                  d \in ds},
           front, pop, obj + 1, D)

\* C16: on a front of at least two individuals calculateCrowdingDistances
\* gives, for each objective of non-zero range, infinity to the two ends of
\* the order sorted by it and (next - previous) / (max - min) more to each
\* interior individual; an objective with the same value for every
\* individual changes no distance.
CrowdingSkipsFlatObjectives ==
    (/\ output # <<>>
     /\ Len(input.pop) >= 2)
        => output.crowding_distance \in
               ClaimedFrom({[p \in 1..Len(input.pop) |-> Dist(FALSE, 0)]},
                           WholeFront, input.pop, 1,
                           CommonDenominator(WholeFront, input.pop, Len(input.pop[1])))

----------------------------------------------------------------------------
(* C23 *)

\* the operator names recorded for the member at the 0-based index
ExploredAt(map, index) ==
    IF index \in DOMAIN map THEN map[index].explored_neighborhoods ELSE {}

\* C23: when updateApproximationSet removes dominated incumbents and
\* appends the new solution, every surviving incumbent keeps exactly the set
\* of explored operator names it had, at its shifted index, and the
\* appended solution starts with an empty set.
SurvivorsKeepExplored ==
    [][(last_op'.name = "updateApproximationSet" /\ last_op'.done) =>
         LET s == MOVNSSolutionOf(attractions_', transport_modes_', time_info_')
             survives(i) == ~MOVNSSolution_dominates(s, p_approx_[i])
             shifted(i) == Cardinality({k \in 1..i : survives(k)})
         IN /\ \A i \in 1..Len(p_approx_) :
                   survives(i) =>
                       ExploredAt(exploration_state_', shifted(i) - 1)
                           = ExploredAt(exploration_state_, i - 1)
            /\ ExploredAt(exploration_state_', Len(p_approx_') - 1) = {}]_vars

\* an incumbent was removed and a survivor with a recorded operator moved
\* to a lower index
SurvivorShiftedWitness ==
    /\ last_op.name = "updateApproximationSet"
    /\ last_op.done
    /\ last_op.erased = {0}
    /\ Len(p_approx_) = 2
    /\ ExploredAt(exploration_state_, 0) # {}

----------------------------------------------------------------------------
(* C25 *)

\* C25: after any sequence of addAttraction, insertAttraction,
\* removeAttraction and swapAttractions on a MOVNSSolution, rejected calls
\* included, a route of k attractions holds max(0, k - 1) transport modes
\* and k time-info records.
ParallelSequencesAligned ==
    /\ Len(transport_modes_) = Max(0, Len(attractions_) - 1)
    /\ Len(time_info_) = Len(attractions_)

\* a call rejected because the attraction is already present left a route
\* of two attractions
RejectedAddWitness ==
    /\ last_op.name = "addAttraction"
    /\ ~last_op.done
    /\ Len(attractions_) = 2

----------------------------------------------------------------------------
(* C27 *)

\* C27: every solution in the vector MOVNS::run() returns satisfies
\* isValid(), whatever the catalog; if no valid route was found the vector
\* is empty.  The vector returned is the approximation set, sorted.
ReturnedSolutionsAreValid ==
    pc = "done" =>
        \A i \in 1..Len(p_approx_) : MOVNSSolution_isValid(p_approx_[i])

----------------------------------------------------------------------------
(* C28 *)

\* C28: the approximation set never holds two solutions that are equal
\* under operator==; a candidate equal to an incumbent is not added again
\* and is not reported as an improvement.
NoEqualMembers ==
    /\ \A i, j \in 1..Len(p_approx_) :
           i < j => ~MOVNSSolution_equals(p_approx_[i], p_approx_[j])
    /\ (pc = "updated" /\ last_op.done) =>
           \A i \in 1..(Len(p_approx_) - 1) : ~MOVNSSolution_equals(p_approx_[i], this)

----------------------------------------------------------------------------
(* C29: every pass through the body of the main loop of run() that does    *)
(* not end the run increases iteration by exactly one -- the passes that   *)
(* re-seed an empty set, drop an invalid selected solution, time out or    *)
(* catch an exception included -- so that the body runs at most            *)
(* max_iterations times.  A pass ends with the step that brings run() back *)
(* to the head of the loop; the clock's own step is not a pass.            *)
EveryPassCountsOnce ==
    [][(pc # "start" /\ pc' = "loop" /\ elapsed' = elapsed)
           => iteration' = iteration + 1]_vars

----------------------------------------------------------------------------
(* C30 *)

\* the places (front, position in the front) at which individual p stands
PlacesOf(fronts, p) ==
    {<<i, k>> \in (1..Len(fronts)) \X (1..MaxPop) :
        k <= Len(fronts[i]) /\ fronts[i][k] = p}

\* C30: fastNonDominatedSort places every individual of the population in
\* exactly one returned front, once, and leaves its rank equal to the index
\* of that front; for NSGA2Base with raw dominance and for NSGA2 with
\* range-normalized dominance.
FrontsPartitionPopulation ==
    (output # <<>> /\ output.op \in {"NSGA2Base::fastNonDominatedSort",
                                    "NSGA2::fastNonDominatedSort"}) =>
        \A p \in 1..Len(input.pop) :
            /\ Cardinality(PlacesOf(output.fronts, p)) = 1
            /\ \A place \in PlacesOf(output.fronts, p) : output.rank[p] = place[1] - 1

\* NSGA2 has sorted, with ranges, a full population into several fronts,
\* and the threshold keeps in front 0 two individuals of which one
\* Pareto-dominates the other
PartitionWitness ==
    /\ output # <<>>
    /\ output.op = "NSGA2::fastNonDominatedSort"
    /\ output.ranges # <<>>
    /\ Len(input.pop) = MaxPop
    /\ Len(output.fronts) >= 2
    /\ \E p, q \in Range(output.fronts[1]) :
           ParetoDominates(input.pop[p], input.pop[q])

----------------------------------------------------------------------------
(* C21 *)

\* between 1 and min(8, |A|) genes, each a position of the catalog, none
\* repeated
WellFormed(chrom) ==
    /\ Len(chrom) >= 1
    /\ Len(chrom) <= Min(8, Len(catalog.attractions))
    /\ \A i \in 1..Len(chrom) : ValidGene(chrom[i])
    /\ \A i, j \in 1..Len(chrom) : i # j => chrom[i] # chrom[j]

\* C21: for every non-empty catalog A, every chromosome produced by
\* initializePopulation, by crossover (from parents of this shape) or by
\* mutate has between 1 and min(8, |A|) genes, each a valid index into A,
\* none repeated; and the length of a child of crossover lies between the
\* lengths of the shorter and the longer parent.
ChromosomesWellFormed ==
    /\ \A i \in 1..Len(output) : WellFormed(output[i].chromosome)
    /\ last_op.name \in {"crossover", "mutate"} => WellFormed(input.chromosome)
    /\ last_op.name = "crossover" =>
           /\ Len(input.chromosome) >= last_op.min_size
           /\ Len(input.chromosome) <= last_op.max_size

----------------------------------------------------------------------------
(* C22 *)

\* C22: every NSGA2Base individual, after its construction and after any
\* sequence of mutate calls, holds exactly len - 1 transport modes, where
\* len is the length of its chromosome (no mode when len = 1).
ModesMatchChromosome ==
    input # <<>> =>
        Len(input.transport_modes) = Max(0, Len(input.chromosome) - 1)

----------------------------------------------------------------------------
(* C26 *)

\* C26: in NSGA2Base::run(), in every generation, the first included,
\* whenever tournamentSelection compares two individuals of the current
\* parent population, the rank each of them holds is the index of its front
\* in the fast non-dominated sort of that population.
TournamentSeesSortedRanks ==
    last_op.name = "tournamentSelection" =>
        \A p \in last_op.compared :
            output.population_[p].rank_ = Ranked(output.population_)[p].rank_

----------------------------------------------------------------------------
(* C24 *)

\* the strictly increasing maps of the positions of result into those of s
Embeddings(result, s) ==
    {f \in [1..Len(result) -> 1..Len(s)] :
        /\ \A a, b \in 1..Len(result) : a < b => f[a] < f[b]
        /\ \A a \in 1..Len(result) : s[f[a]] = result[a]}

\* C24: applyEpsilonDominance returns a subsequence of its input; no two
\* retained solutions with the same attraction count and the same
\* neighborhood count are such that one is no worse than the other by more
\* than eps_cost on cost and by more than eps_time on time; a solution is
\* eliminated only by a solution of its own attraction and neighborhood
\* counts; and a non-empty input gives a non-empty output.
EpsilonReductionSound ==
    last_op.name = "applyEpsilonDominance" =>
        LET obj(s) == MOVNSSolution_getObjectives(s)
        IN /\ Embeddings(output, input.solutions) # {}
           /\ \A a, b \in 1..Len(output) :
                  (a # b /\ obj(output[a])[3] = obj(output[b])[3]
                         /\ obj(output[a])[4] = obj(output[b])[4])
                      => \E k \in 1..2 :
                             obj(output[a])[k]
                                 > obj(output[b])[k] + EpsilonAt(input.epsilon, k)
           /\ \A j \in last_op.dominated :
                  \E i \in (1..Len(input.solutions)) \ {j} :
                      /\ obj(input.solutions[i])[3] = obj(input.solutions[j])[3]
                      /\ obj(input.solutions[i])[4] = obj(input.solutions[j])[4]
                      /\ \A k \in 1..2 :
                             obj(input.solutions[i])[k]
                                 <= obj(input.solutions[j])[k] + EpsilonAt(input.epsilon, k)
           /\ Len(output) = Len(input.solutions) - Cardinality(last_op.dominated)
           /\ input.solutions # <<>> => output # <<>>

\* a call on three different solutions of one attraction and one
\* neighborhood each that eliminated one of them and retained two
EpsilonReducedWitness ==
    /\ last_op.name = "applyEpsilonDominance"
    /\ Len(input.solutions) = 3
    /\ Len(output) = 2
    /\ \A i \in 1..3 : Len(input.solutions[i].attractions_) = 1
    /\ \A i, j \in 1..3 : i # j => input.solutions[i] # input.solutions[j]

====
